---- MODULE Spec2Model ----
(***************************************************************************)
(* Dice-rolling pipeline (progressive/stage4):                              *)
(*   Gateway/Frontend  ->  Roll Engine (dice-roller)  ->  Specification    *)
(*   Store (die-service).                                                  *)
(* The Roll Engine is a single cooperative event loop: the /roll handler   *)
(* never yields (requests.get and time.sleep block the loop), the          *)
(* /roll-async handler yields at asyncio.gather, and each batch trial      *)
(* yields at asyncio.sleep.                                                *)
(***************************************************************************)
EXTENDS Integers, Sequences, FiniteSets, TLC

(* ------------------------------------------------------------------ *)
(* Bounds of the model                                                  *)
(* ------------------------------------------------------------------ *)
MaxBatch == 2         \* largest valid batch size explored (of 1..MaxTimes)
Scale == 2            \* resolution of [0,1): a draw u stands for u/Scale
MaxDelay == 2         \* longest simulated delay, in ticks
MaxClock == 3         \* the clock stops here
MaxLen == 4           \* longest path parameter sent to the XdY roller
MaxDice == 2          \* most dice asked of the XdY roller
MaxSides == 2         \* most sides asked of the XdY roller
DrawSteps == 10       \* resolution of random.random() for the two named dice
MaxPolls == 4         \* iterations of the scrape loop explored

(* ------------------------------------------------------------------ *)
(* Program constants                                                    *)
(* ------------------------------------------------------------------ *)
MinTimes == 1         \* Query(ge=1)
POLL_INTERVAL == 60                     \* POLL_INTERVAL_SECONDS, default
LOOKBACK_MINUTES == 2                   \* LOOKBACK_MINUTES, default
MaxTimes == 20        \* Query(le=20)

Reqs == {1, 2}                          \* request slots of one behaviour
Draws == 0..(Scale - 1)                 \* random.random() in [0,1)
Delays == 0..MaxDelay                   \* random.uniform(0, 1.0), discretised
TimesInputs == (0..MaxBatch) \cup {MaxTimes + 1}
DefaultFaces == <<1, 2, 3, 4, 5, 6>>    \* spec.get("faces", [1,2,3,4,5,6])
DefaultErrorRate == 0                   \* spec.get("error_rate", 0.0)

(* Content of the Specification Store (die_specifications): the data file *)
(* is external; error_rate is in units of 1/Scale.                        *)
DieStore ==
    [fair   |-> [faces |-> <<1, 2>>, error_rate |-> 0],
     risky  |-> [faces |-> <<5>>,    error_rate |-> 1],
     cursed |-> [faces |-> <<4>>,    error_rate |-> Scale]]

\* a store whose entries lack a field, and a store whose file failed to load
PartialStore ==
    [nofaces |-> [error_rate |-> 0],
     norate  |-> [faces |-> <<3>>]]
EmptyStore == [id \in {} |-> [faces |-> <<>>, error_rate |-> 0]]
StoreContents == {DieStore, PartialStore, EmptyStore}
\* a store that holds the fair die only
FairStore == [id \in {"fair"} |-> DieStore[id]]
\* the same store after an administrative update of the fair die
UpdatedStore == [id \in {"fair"} |-> [faces |-> <<3>>, error_rate |-> Scale]]
StoreVersions == {FairStore, UpdatedStore}

\* identifiers the clients ask for: the stored ones and one that is unknown
DiceOf(st) == DOMAIN st \cup {"missing"}

VARIABLES
    store,      \* Specification Store: identifier -> specification
    req,        \* per request: the Roll Engine handler's locals and position
    trial,      \* per request: the trials (index -> state, value)
    gather,     \* per request: the asyncio.gather future of the batch
    running,    \* request whose handler holds the engine's event loop, 0 = idle
    resp,       \* per request: the Roll Engine's HTTP response
    gw,         \* per request: the Gateway handler's position, then what
                \* its requests.get produced
    gwresp,     \* per request: the Gateway's HTTP response
    span,       \* per request: the spans of its trials (index -> parent, ended)
    available_die_types,  \* the Gateway's cached list of identifiers
    startup,    \* the Gateway's startup_event: position and what the pre-fetch got
    clock,      \* time, in units of the discrete delays
    wake,       \* per request: the instant each of its sleeps ends
    stamp,      \* per request: the instants of launch and of completion
    metrics,    \* per request: what its handlers added to the counters and
                \* histograms
    gauge,      \* async_rolls_in_progress
    storecall,  \* per client: its last GET /dice call at the store and the answer
    xdy,        \* the last GET /roll/{dice} call at the XdY roller and the answer
    both,       \* the answers of the stage-2 and the stage-3 roller to one
                \* request decided by the same draws
    loki,       \* the log backend: the log entries it holds
    usage_stats, \* the table usage_stats: its committed rows, in order of id
    scraper     \* the scrape loop: position, clock, and its last iteration

gwstart == <<available_die_types, startup>>
timevars == <<clock, wake, stamp>>
obsvars == <<metrics, gauge>>
rcvvars == <<loki, usage_stats, scraper>>
svcvars == <<storecall, xdy, both, rcvvars>>
vars == <<store, req, trial, gather, running, resp, gw, gwresp, span, gwstart, timevars,
          obsvars, svcvars>>

(* ------------------------------------------------------------------ *)
(* Helpers                                                              *)
(* ------------------------------------------------------------------ *)
\* no GET /dice call made yet, no GET /roll/{dice} call made yet
NoIdentifier == "(no identifier)"
NoCall == [stage |-> "none", identifier |-> NoIdentifier, db |-> <<TRUE, TRUE>>,
           answer |-> [kind |-> "none", status |-> 0]]
NoXdY == [dice |-> <<>>, status |-> 0, rolls |-> <<>>, total |-> 0]
\* the scrape loop before its first iteration; last_processed_timestamp = None
NoIteration ==
    [window |-> <<0, 0>>, query |-> "none", log_entries |-> <<>>,
     fail |-> "none", before |-> <<>>, outcome |-> "none", inserted |-> 0]
NoScraper == [pc |-> "polling", now |-> 0, polls |-> 0, last_processed_timestamp |-> -1,
              iteration |-> NoIteration]
NoBoth == [die |-> "none", u |-> 0, k |-> 0, stage2 |-> [status |-> 0],
           stage3 |-> [status |-> 0]]

\* dict.get(key, default)
Get(d, k, default) == IF k \in DOMAIN d THEN d[k] ELSE default

RECURSIVE Sum(_)
Sum(s) == IF s = <<>> THEN 0 ELSE Head(s) + Sum(Tail(s))

Elems(s) == {s[j] : j \in 1..Len(s)}

NoResp == [status |-> 0]
None == [none |-> TRUE]
IsNone(x) == "none" \in DOMAIN x
\* Trace contexts.  An identifier is named after the service that made it
\* and the request it was made for.
Id(svc, r) == [svc |-> svc, req |-> r]
NoId == Id("none", 0)
NoContext == [trace_id |-> NoId, span_id |-> NoId]
NoSpan == [trace_id |-> NoId, span_id |-> NoId, parent |-> NoId]

NoReq == [via |-> "none", endpoint |-> "none", die |-> "none", times |-> 0,
          pc |-> "none", lookup |-> "none",
          faces |-> <<>>, error_rate |-> 0,
          observed |-> 0,     \* trial outcomes gather had seen at the response
          spec |-> None,      \* what get_die_specification returned
          calls |-> 0,        \* requests.get calls made to the store
          gwspan |-> NoSpan,  \* server span of the call at the Gateway
          engspan |-> NoSpan, \* server span of the call at the Roll Engine
          storespan |-> NoSpan]  \* server span of the lookup at the store
\* a request slot that is not used
ClosedReq == [NoReq EXCEPT !.via = "closed"]
NoGather == [state |-> "none", exc |-> -1, order |-> <<>>]
NoTrials == <<>>
NoSpans == <<>>
NoWake == <<>>
NoStamp == [launched |-> -1, completed |-> -1]
\* the counters (by label value) and the value histogram (its observations)
NoMetrics ==
    [dice_rolls_total |-> [success |-> 0, error |-> 0],
     async_rolls_total |-> [success |-> 0, error |-> 0],
     dice_roll_value |-> <<>>,
     frontend_requests_total |->
         [received |-> 0, success |-> 0, error |-> 0, timeout |-> 0,
          connection_error |-> 0]]
\* Counter.labels(...).inc() and Histogram.labels(...).observe(v)
Inc(m, name, label) == [m EXCEPT ![name][label] = @ + 1]
Observe(m, name, v) == [m EXCEPT ![name] = Append(@, v)]
\* available_die_types = ["fair", "risky"]
DefaultDieTypes == <<"fair", "risky">>
NoAnswer == [kind |-> "none", status |-> 0, body |-> None]
NotStarted == [state |-> "pending", fetched |-> NoAnswer]

(* ------------------------------------------------------------------ *)
(* Specification Store (die-service): GET /dice?identifier=<id>         *)
(* ------------------------------------------------------------------ *)
\* a stored specification is served only when the handler can read both of
\* its fields: spec["faces"] or spec["error_rate"] on a partial entry raises
\* KeyError, which the framework answers with 500
StoreServerError(id) ==
    [kind |-> "response", status |-> 500,
     body |-> [detail |-> <<"Internal server error", id>>]]
\* a Get that answers an absent identifier with a default specification
StoreGetFallback(st, id) ==
    IF id \in DOMAIN st
    THEN IF {"faces", "error_rate"} \subseteq DOMAIN st[id]
         THEN [kind |-> "response", status |-> 200,
               body |-> [identifier |-> id, specification |-> st[id]]]
         ELSE StoreServerError(id)
    ELSE [kind |-> "response", status |-> 200,
          body |-> [identifier |-> id,
                    specification |-> [faces |-> <<1>>, error_rate |-> 0]]]
StoreGetUnchecked(st, id) ==
    IF id \in DOMAIN st
    THEN [kind |-> "response", status |-> 200,
          body |-> [identifier |-> id, specification |-> st[id]]]
    ELSE [kind |-> "response", status |-> 404,
          body |-> [detail |-> <<"Die identifier not found", id>>]]
StoreGet(st, id) ==
    IF id \in DOMAIN st
    THEN IF {"faces", "error_rate"} \subseteq DOMAIN st[id]
         THEN [kind |-> "response", status |-> 200,
               body |-> [identifier |-> id, specification |-> st[id]]]
         ELSE StoreServerError(id)
    ELSE [kind |-> "response", status |-> 404,
          body |-> [detail |-> <<"Die identifier not found", id>>]]

\* list(die_specifications.keys())
RECURSIVE SetToSeq(_)
SetToSeq(S) ==
    IF S = {} THEN <<>>
    ELSE LET x == CHOOSE y \in S : TRUE IN <<x>> \o SetToSeq(S \ {x})

\* GET /dice without identifier
StoreListNotFoundOnEmpty(st) ==
    IF DOMAIN st = {}
    THEN [kind |-> "response", status |-> 404,
          body |-> [detail |-> <<"No die specifications">>]]
    ELSE [kind |-> "response", status |-> 200,
          body |-> [identifiers |-> SetToSeq(DOMAIN st)]]
StoreList(st) ==
    [kind |-> "response", status |-> 200,
     body |-> [identifiers |-> SetToSeq(DOMAIN st)]]

\* the database-backed store: a failed query or a missing pool is caught by
\* "except Exception"
DatabaseError ==
    [kind |-> "response", status |-> 500,
     body |-> [detail |-> <<"Database query failed">>]]

\* ORDER BY identifier
Alphabetical == <<"cursed", "fair", "missing", "nofaces", "norate", "risky">>
Stored(st, id) == id \in DOMAIN st
OrderByIdentifier(st) == SelectSeq(Alphabetical, LAMBDA id : Stored(st, id))

\* GET /dice without identifier, from the database; ok: the query succeeded
StoreListDb(st, ok) ==
    IF ok
    THEN [kind |-> "response", status |-> 200,
          body |-> [identifiers |-> OrderByIdentifier(st)]]
    ELSE DatabaseError

\* GET /dice?identifier=id from the database; ok[1]: the fetchrow succeeded,
\* ok[2]: the query of the available identifiers for the 404 detail succeeded
StoreGetDbSwallowing(st, id, ok) ==
    IF ~ok[1] THEN DatabaseError
    ELSE IF id \in DOMAIN st
    THEN [kind |-> "response", status |-> 200,
          body |-> [identifier |-> id,
                    specification |-> [faces |-> st[id].faces,
                                       error_rate |-> st[id].error_rate]]]
    ELSE DatabaseError
StoreGetDb(st, id, ok) ==
    IF ~ok[1] THEN DatabaseError
    ELSE IF id \in DOMAIN st
    THEN [kind |-> "response", status |-> 200,
          body |-> [identifier |-> id,
                    specification |-> [faces |-> st[id].faces,
                                       error_rate |-> st[id].error_rate]]]
    ELSE IF ok[2]
    THEN [kind |-> "response", status |-> 404,
          body |-> [detail |-> <<"Die identifier not found", id>>]]
    ELSE DatabaseError

\* every entry has both fields, as every row of the table has both columns
Complete(st) == \A id \in DOMAIN st : {"faces", "error_rate"} \subseteq DOMAIN st[id]

\* the handler of GET /dice of either store
get_die_specifications(stage, st, identifier, ok) ==
    IF stage = "stage3"
    THEN IF identifier = NoIdentifier THEN StoreList(st) ELSE StoreGet(st, identifier)
    ELSE IF identifier = NoIdentifier THEN StoreListDb(st, ok[1])
         ELSE StoreGetDb(st, identifier, ok)

\* What requests.get(..., timeout=2.0) can produce for one lookup: the store's
\* answer, another non-200 answer, a timeout, a connection failure or any
\* other exception ("error").
LookupAnswers(st, id) ==
    { StoreGet(st, id),
      StoreServerError(id),
      [kind |-> "error", status |-> 0, body |-> None],
      [kind |-> "timeout", status |-> 0, body |-> None],
      [kind |-> "connection_error", status |-> 0, body |-> None] }

(* ------------------------------------------------------------------ *)
(* Roll Engine (dice-roller)                                            *)
(* ------------------------------------------------------------------ *)
\* times: int = Query(..., ge=1, le=20)
EngValidTimesNoUpper(times) == times >= MinTimes
EngValidTimes(times) == times >= MinTimes /\ times <= MaxTimes

ValidationError == [status |-> 422, detail |-> <<"validation error", "times">>]

\* get_die_specification: the specification, or None
GetSpecStrict(ans) ==
    IF ans.kind = "response" /\ ans.status = 200
          /\ "specification" \in DOMAIN ans.body
          /\ {"faces", "error_rate"} \subseteq DOMAIN ans.body.specification
    THEN ans.body.specification
    ELSE None
GetSpecIgnoringStatus(ans) ==
    IF ans.kind = "response"
    THEN Get(ans.body, "specification", [empty |-> TRUE])
    ELSE None
get_die_specification(ans) ==
    IF ans.kind = "response"
    THEN IF ans.status = 200
         THEN Get(ans.body, "specification", [empty |-> TRUE])
         ELSE None
    ELSE None

\* the status label get_die_specification counts the lookup under
LookupStatus(ans) ==
    IF ans.kind = "response"
    THEN IF ans.status = 200 THEN "success"
         ELSE IF ans.status = 404 THEN "error_404" ELSE "error_500"
    ELSE ans.kind

\* raise HTTPException(status_code=503, detail=f"Die service unavailable or ...")
SpecUnavailableAs500(die) ==
    [status |-> 500, detail |-> <<"Die service unavailable or die not found", die>>]
SpecUnavailable(die) ==
    [status |-> 503, detail |-> <<"Die service unavailable or die not found", die>>]

\* random.random() < error_rate
FaultedLe(u, error_rate) == u <= error_rate
Faulted(u, error_rate) == u < error_rate

\* roll_die's handlers around the try block: an HTTPException is re-raised
\* as it is, any other exception becomes 500 "Internal server error"
RollExceptGeneric(exc) == [status |-> 500, detail |-> <<"Internal server error">>]
RollExcept(exc) ==
    IF exc.http THEN [status |-> exc.status, detail |-> exc.detail]
    ELSE [status |-> 500, detail |-> <<"Internal server error">>]

\* roll_die after the delay: fault draw u, face choice k (0 when faces is empty)
RollDecision(die, faces, error_rate, u, k) ==
    IF Faulted(u, error_rate)
    THEN RollExcept([http |-> TRUE, status |-> 500, detail |-> <<"Die failed!", die>>])
    ELSE IF k \notin 1..Len(faces)
         THEN RollExcept([http |-> FALSE, status |-> 0, detail |-> <<"IndexError">>])
         ELSE [status |-> 200, roll |-> faces[k]]

\* perform_single_async_roll: delay = random.uniform(0, 1.0);
\* await asyncio.sleep(delay)
TrialSkipSleep(t) == [t EXCEPT !.state = "Succeeded"]
TrialSleep(t) == [t EXCEPT !.state = "Delaying"]

\* perform_single_async_roll after the delay
TrialDecisionRetrying(faces, error_rate, u, k) ==
    IF Faulted(u, error_rate) \/ k \notin 1..Len(faces)
    THEN [state |-> "Delaying", value |-> 0]
    ELSE [state |-> "Succeeded", value |-> faces[k]]
TrialDecision(faces, error_rate, u, k) ==
    IF Faulted(u, error_rate) \/ k \notin 1..Len(faces)
    THEN [state |-> "Failed", value |-> 0]
    ELSE [state |-> "Succeeded", value |-> faces[k]]

\* roll_die after the delay: what it adds to the metrics
RollMetrics(m, out) ==
    IF out.status = 200
    THEN Observe(Inc(m, "dice_rolls_total", "success"), "dice_roll_value", out.roll)
    ELSE Inc(m, "dice_rolls_total", "error")

\* perform_single_async_roll after the delay: what it adds to the metrics
\* (nothing when random.choice raises on an empty face list)
TrialMetricsSuccessOnly(m, faces, error_rate, u, k) ==
    IF Faulted(u, error_rate) \/ k \notin 1..Len(faces) THEN m
    ELSE Inc(m, "async_rolls_total", "success")
TrialMetrics(m, faces, error_rate, u, k) ==
    IF Faulted(u, error_rate) THEN Inc(m, "async_rolls_total", "error")
    ELSE IF k \notin 1..Len(faces) THEN m
    ELSE Inc(m, "async_rolls_total", "success")

\* try: ... finally: async_rolls_in_progress.dec(); out is how the trial ended
GaugeOnExitOfSuccess(g, out) == IF out.state = "Succeeded" THEN g - 1 ELSE g
GaugeOnExit(g, out) == g - 1

FaceChoicesOffByOne(faces) == 0..(Len(faces) - 1)
FaceChoices(faces) == IF faces = <<>> THEN {0} ELSE 1..Len(faces)

\* Spans.  The handler runs inside the server span of its request; an
\* asyncio task runs in a copy of the context that was current when the task
\* was created, so what the handler's context holds is what each trial sees.
RequestSpan(r) == [name |-> "request", req |-> r, index |-> -1]
TrialSpan(r, i) == [name |-> "async_roll", req |-> r, index |-> i]

\* the current span in the context of task i of request r when it starts
TaskContextLeaking(r, i) ==
    IF (i - 1) \in DOMAIN span[r] /\ ~span[r][i - 1].ended
    THEN TrialSpan(r, i - 1) ELSE RequestSpan(r)
TaskContext(r, i) == RequestSpan(r)

\* with tracer.start_as_current_span(f"async_roll_{roll_index}") as span:
start_as_current_span(current) == [parent |-> current, ended |-> FALSE]
\* leaving the with block, by return or by raise
SpanExit(sp) == [sp EXCEPT !.ended = TRUE]

\* asyncio.gather(*tasks): a child task finished.  The first exception is
\* propagated at once; the siblings are left running.
GatherCancelSiblings(ts) ==
    [j \in DOMAIN ts |->
        IF ts[j].state = "Delaying" THEN [state |-> "Cancelled", value |-> 0]
        ELSE ts[j]]
GatherSiblings(ts) == ts

GatherOnDoneTolerant(g, ts, i) ==
    LET order == Append(g.order, i) IN
    IF g.state = "pending" /\ \A j \in DOMAIN ts : ts[j].state \in {"Succeeded", "Failed"}
    THEN [state |-> "result", exc |-> -1, order |-> order]
    ELSE [g EXCEPT !.order = order]
GatherOnDone(g, ts, i) ==
    LET order == Append(g.order, i) IN
    IF g.state # "pending" THEN [g EXCEPT !.order = order]
    ELSE IF ts[i].state = "Failed"
         THEN [state |-> "exception", exc |-> i, order |-> order]
    ELSE IF \A j \in DOMAIN ts : ts[j].state = "Succeeded"
         THEN [state |-> "result", exc |-> -1, order |-> order]
    ELSE [g EXCEPT !.order = order]

\* the list gather returns: results in the order of the awaitables
GatherResultsByCompletion(ts, order) ==
    [j \in 1..Cardinality(DOMAIN ts) |-> ts[order[j]].value]
GatherResults(ts, order) ==
    [j \in 1..Cardinality(DOMAIN ts) |-> ts[j - 1].value]

\* return {"total": total, "rolls": rolls, "count": times}
BatchSuccessNoSum(rolls, times) ==
    [status |-> 200, total |-> Len(rolls), rolls |-> rolls, count |-> times]
BatchSuccess(rolls, times) ==
    [status |-> 200, total |-> Sum(rolls), rolls |-> rolls, count |-> times]

\* raise HTTPException(status_code=500, detail=f"Async roll batch failed: {str(e)}")
BatchFailureAs503(die, i) ==
    [status |-> 503, detail |-> <<"Async roll batch failed", die, i>>]
BatchFailure(die, i) ==
    [status |-> 500, detail |-> <<"Async roll batch failed", die, i>>]

(* ------------------------------------------------------------------ *)
(* State                                                                *)
(* ------------------------------------------------------------------ *)
Init ==
    /\ store = DieStore
    /\ req = [r \in Reqs |-> NoReq]
    /\ trial = [r \in Reqs |-> NoTrials]
    /\ gather = [r \in Reqs |-> NoGather]
    /\ running = 0
    /\ resp = [r \in Reqs |-> NoResp]
    /\ gw = [r \in Reqs |-> "none"]
    /\ gwresp = [r \in Reqs |-> NoResp]
    /\ span = [r \in Reqs |-> NoSpans]
    /\ available_die_types = DefaultDieTypes
    /\ startup = NotStarted
    /\ clock = 0
    /\ wake = [r \in Reqs |-> NoWake]
    /\ stamp = [r \in Reqs |-> NoStamp]
    /\ metrics = [r \in Reqs |-> NoMetrics]
    /\ gauge = 0
    /\ storecall = [r \in Reqs |-> NoCall]
    /\ xdy = NoXdY
    /\ both = NoBoth
    /\ loki = <<>>
    /\ usage_stats = <<>>
    /\ scraper = NoScraper

Issued(r) == req[r].via \in {"direct", "gateway"}
\* requests are issued in the order of their numbers
NextToIssue(r) == req[r].via = "none" /\ \A q \in Reqs : q < r => Issued(q)
Endpoints == {"roll", "roll_async"}
TimesFor(ep) == IF ep = "roll" THEN {0} ELSE TimesInputs

\* FastAPIInstrumentor: the server span of an inbound call continues the
\* trace of the traceparent header, or starts a trace when there is none
ServerSpan(svc, r, header) ==
    IF header = NoContext
    THEN [trace_id |-> Id(svc, r), span_id |-> Id(svc, r), parent |-> NoId]
    ELSE [trace_id |-> header.trace_id, span_id |-> Id(svc, r),
          parent |-> header.span_id]

\* RequestsInstrumentor: requests.get runs inside a client span, a child of
\* the current span
ClientSpan(svc, r, current) ==
    [trace_id |-> current.trace_id, span_id |-> Id(svc, r),
     parent |-> current.span_id]

\* inject(headers): the traceparent of the current span
inject(current) == [trace_id |-> current.trace_id, span_id |-> current.span_id]

\* the headers an outbound requests.get carries: inject(headers) in the
\* handler, then the instrumented call writes the traceparent of its client span
OutboundHeadersNone(svc, r, current) == NoContext
OutboundHeaders(svc, r, current) == inject(ClientSpan(svc, r, current))

\* the span of the Gateway handler: its clients send no traceparent
GwSpan(r) == ServerSpan("gateway", r, NoContext)
\* the traceparent an inbound call of the Roll Engine carries
InboundHeaders(r, via) ==
    IF via = "gateway" THEN OutboundHeaders("gateway_client", r, GwSpan(r))
    ELSE NoContext
\* the record of a call that arrives at the Roll Engine
Arrived(r, via, ep, die, times) ==
    [NoReq EXCEPT !.via = via, !.endpoint = ep, !.die = die, !.times = times,
                  !.gwspan = IF via = "gateway" THEN GwSpan(r) ELSE NoSpan,
                  !.engspan = ServerSpan("engine", r, InboundHeaders(r, via))]

\* An inbound call reaches the Roll Engine: FastAPI validates the query
\* before the handler runs; a valid call waits for the event loop.
EngAccept(r, via, ep, die, times) ==
    IF ep = "roll_async" /\ ~EngValidTimes(times)
    THEN /\ req' = [req EXCEPT ![r] =
                     [Arrived(r, via, ep, die, times) EXCEPT !.pc = "rejected"]]
         /\ resp' = [resp EXCEPT ![r] = ValidationError]
    ELSE /\ req' = [req EXCEPT ![r] =
                     [Arrived(r, via, ep, die, times) EXCEPT !.pc = "queued"]]
         /\ resp' = resp

\* a client calls the Roll Engine directly
EngRequest(r) ==
    /\ NextToIssue(r)
    /\ \E ep \in Endpoints : \E die \in DiceOf(store) : \E times \in TimesFor(ep) :
          EngAccept(r, "direct", ep, die, times)
    /\ UNCHANGED <<store, trial, gather, running, gw, gwresp, span, gwstart, timevars, obsvars, svcvars>>

\* the handler starts when the loop is free and calls get_die_specification:
\* the lookup is Pending and the loop is blocked in requests.get
EngLookupStart(r) ==
    /\ req[r].pc = "queued"
    /\ running = 0
    /\ running' = r
    /\ req' = [req EXCEPT ![r].pc = "lookup", ![r].lookup = "pending",
                          ![r].calls = @ + 1]
    /\ UNCHANGED <<store, trial, gather, resp, gw, gwresp, span, gwstart, timevars, obsvars, svcvars>>

\* the server span of the lookup at the store, when the store answered
StoreSpanOf(r, ans) ==
    IF ans.kind = "response"
    THEN ServerSpan("store", r, OutboundHeaders("engine_client", r, req[r].engspan))
    ELSE NoSpan

\* where the handler goes after get_die_specification returned: a failed
\* lookup ends the request
AfterLookupRetry(spec) == IF IsNone(spec) THEN "queued" ELSE "resolved"
AfterLookup(spec) == IF IsNone(spec) THEN "done" ELSE "resolved"

\* the specification-unavailable branch: roll_die counts an error,
\* roll_async counts nothing
UnavailableMetrics(m, ep) ==
    IF ep = "roll" THEN Inc(m, "dice_rolls_total", "error") ELSE m

\* the lookup ends; spec is None -> 503, else faces and error_rate are extracted
EngLookupAnswered(r, ans) ==
    LET spec == get_die_specification(ans) IN
    /\ IF IsNone(spec)
       THEN /\ req' = [req EXCEPT ![r].pc = AfterLookup(spec),
                           ![r].lookup = LookupStatus(ans),
                           ![r].spec = spec,
                           ![r].storespan = StoreSpanOf(r, ans)]
            /\ resp' = [resp EXCEPT ![r] = SpecUnavailable(req[r].die)]
            /\ running' = 0
            /\ metrics' = [metrics EXCEPT ![r] = UnavailableMetrics(@, req[r].endpoint)]
       ELSE /\ req' = [req EXCEPT ![r].pc = AfterLookup(spec),
                           ![r].lookup = LookupStatus(ans),
                           ![r].spec = spec,
                           ![r].storespan = StoreSpanOf(r, ans),
                           ![r].faces = Get(spec, "faces", DefaultFaces),
                           ![r].error_rate = Get(spec, "error_rate", DefaultErrorRate)]
            /\ resp' = resp
            /\ running' = running
            /\ metrics' = metrics
    /\ UNCHANGED <<store, trial, gather, gw, gwresp, span, gwstart, timevars, gauge, svcvars>>

\* the lookup at the Specification Store of this repository
EngLookupDone(r) ==
    /\ req[r].pc = "lookup"
    /\ \E ans \in LookupAnswers(store, req[r].die) : EngLookupAnswered(r, ans)

\* 200 answers of a store that does not check what it serves: a body
\* without the specification object, and a stored entry as it is
ForeignAnswers(st, id) ==
    {[kind |-> "response", status |-> 200, body |-> [identifier |-> id]]}
    \cup (IF id \in DOMAIN st
          THEN {[kind |-> "response", status |-> 200,
                 body |-> [identifier |-> id, specification |-> st[id]]]}
          ELSE {})

\* the lookup at such a store
EngLookupForeign(r) ==
    /\ req[r].pc = "lookup"
    /\ \E ans \in ForeignAnswers(store, req[r].die) : EngLookupAnswered(r, ans)

\* /roll: delay = random.uniform(0, 1.0); time.sleep(delay)
RollDelayStep(r) ==
    /\ req[r].pc = "resolved"
    /\ req[r].endpoint = "roll"
    /\ req' = [req EXCEPT ![r].pc = "sleeping"]
    /\ trial' = [trial EXCEPT ![r] = [i \in {0} |-> [state |-> "Delaying", value |-> 0]]]
    /\ UNCHANGED <<store, gather, running, resp, gw, gwresp, span, gwstart, obsvars, svcvars>>

\* the same step when time is not tracked
RollDelay(r) == RollDelayStep(r) /\ UNCHANGED timevars

\* /roll: the fault draw, the face choice and the response
RollDecideStep(r) ==
    /\ req[r].pc = "sleeping"
    /\ \E u \in Draws : \E k \in FaceChoices(req[r].faces) :
         LET out == RollDecision(req[r].die, req[r].faces, req[r].error_rate, u, k) IN
         /\ resp' = [resp EXCEPT ![r] = out]
         /\ metrics' = [metrics EXCEPT ![r] = RollMetrics(@, out)]
         /\ trial' = [trial EXCEPT ![r][0] =
                IF out.status = 200 THEN [state |-> "Succeeded", value |-> out.roll]
                ELSE [state |-> "Failed", value |-> 0]]
    /\ req' = [req EXCEPT ![r].pc = "done"]
    /\ running' = 0
    /\ UNCHANGED <<store, gather, gw, gwresp, span, gwstart, gauge, svcvars>>

\* the same step when time is not tracked
RollDecide(r) == RollDecideStep(r) /\ UNCHANGED timevars

\* /roll-async: the tasks are created and the handler awaits gather
BatchLaunchStep(r) ==
    /\ req[r].pc = "resolved"
    /\ req[r].endpoint = "roll_async"
    /\ req' = [req EXCEPT ![r].pc = "starting"]
    /\ trial' = [trial EXCEPT ![r] =
           [i \in 0..(req[r].times - 1) |-> [state |-> "Scheduled", value |-> 0]]]
    /\ gather' = [gather EXCEPT ![r] = [NoGather EXCEPT !.state = "pending"]]
    /\ UNCHANGED <<store, running, resp, gw, gwresp, span, gwstart, obsvars, svcvars>>

\* the same step when time is not tracked
BatchLaunch(r) == BatchLaunchStep(r) /\ UNCHANGED timevars

\* perform_single_async_roll(die, faces, error_rate, i): the arguments of a
\* trial are the handler's locals, bound when the tasks are created
TrialArgsFromStore(r) ==
    IF req[r].die \in DOMAIN store /\ {"faces", "error_rate"} \subseteq DOMAIN store[req[r].die]
    THEN [faces |-> store[req[r].die].faces, error_rate |-> store[req[r].die].error_rate]
    ELSE [faces |-> req[r].faces, error_rate |-> req[r].error_rate]
TrialArgs(r) == [faces |-> req[r].faces, error_rate |-> req[r].error_rate]

\* the tasks take their first steps one after the other, in index order, in
\* one pass of the loop; each runs up to its await asyncio.sleep(delay)
TrialStartStep(r, i) ==
    /\ req[r].pc = "starting"
    /\ i \in DOMAIN trial[r]
    /\ trial[r][i].state = "Scheduled"
    /\ \A j \in DOMAIN trial[r] : j < i => trial[r][j].state # "Scheduled"
    /\ trial' = [trial EXCEPT ![r][i] = TrialSleep(@)]
    /\ span' = [span EXCEPT ![r] = (i :> start_as_current_span(TaskContext(r, i))) @@ @]
    /\ gauge' = gauge + 1
    /\ IF i = req[r].times - 1
       THEN /\ req' = [req EXCEPT ![r].pc = "gathering"]
            /\ running' = 0
       ELSE UNCHANGED <<req, running>>
    /\ UNCHANGED <<store, gather, resp, gw, gwresp, gwstart, metrics, svcvars>>

\* the same step when time is not tracked
TrialStart(r, i) == TrialStartStep(r, i) /\ UNCHANGED timevars

\* a trial wakes from its delay: fault draw, face choice; gather records it
TrialFinishStep(r, i) ==
    /\ running = 0
    /\ i \in DOMAIN trial[r]
    /\ req[r].endpoint = "roll_async"
    /\ trial[r][i].state = "Delaying"
    /\ \E u \in Draws : \E k \in FaceChoices(TrialArgs(r).faces) :
         LET out == TrialDecision(TrialArgs(r).faces, TrialArgs(r).error_rate, u, k)
             ts  == [trial[r] EXCEPT ![i] = out]
         IN  /\ trial' = [trial EXCEPT ![r] =
                     IF out.state = "Failed" /\ gather[r].state = "pending"
                     THEN GatherSiblings(ts) ELSE ts]
             /\ gather' = [gather EXCEPT ![r] = GatherOnDone(gather[r], ts, i)]
             /\ metrics' = [metrics EXCEPT ![r] =
                     TrialMetrics(@, TrialArgs(r).faces, TrialArgs(r).error_rate, u, k)]
             /\ gauge' = GaugeOnExit(gauge, out)
    /\ span' = [span EXCEPT ![r][i] = SpanExit(@)]
    /\ UNCHANGED <<store, req, running, resp, gw, gwresp, gwstart, svcvars>>

\* the same step when time is not tracked
TrialFinish(r, i) == TrialFinishStep(r, i) /\ UNCHANGED timevars

\* the handler resumes from await gather with the result or the exception
BatchRespondStep(r) ==
    /\ running = 0
    /\ req[r].pc = "gathering"
    /\ gather[r].state \in {"result", "exception"}
    /\ resp' = [resp EXCEPT ![r] =
           IF gather[r].state = "result"
           THEN BatchSuccess(GatherResults(trial[r], gather[r].order), req[r].times)
           ELSE BatchFailure(req[r].die, gather[r].exc)]
    /\ req' = [req EXCEPT ![r].pc = "done", ![r].observed = Len(gather[r].order)]
    /\ UNCHANGED <<store, trial, gather, running, gw, gwresp, span, gwstart, obsvars, svcvars>>

\* the same step when time is not tracked
BatchRespond(r) == BatchRespondStep(r) /\ UNCHANGED timevars

(* ------------------------------------------------------------------ *)
(* The Roll Engine with time.  A step of the loop takes no time; time   *)
(* passes while the loop is idle, while a handler is blocked in         *)
(* requests.get, and while it is blocked in time.sleep.                  *)
(* ------------------------------------------------------------------ *)
\* /roll: delay = random.uniform(0, 1.0); time.sleep(delay) blocks until clock + d
TimedRollDelay(r) ==
    /\ RollDelayStep(r)
    /\ \E d \in Delays : wake' = [wake EXCEPT ![r] = (0 :> (clock + d))]
    /\ UNCHANGED <<clock, stamp>>

\* /roll: time.sleep has returned
TimedRollDecide(r) ==
    /\ 0 \in DOMAIN wake[r]
    /\ clock >= wake[r][0]
    /\ RollDecideStep(r)
    /\ UNCHANGED timevars

\* /roll-async: the instant the tasks are created
TimedBatchLaunch(r) ==
    /\ BatchLaunchStep(r)
    /\ stamp' = [stamp EXCEPT ![r].launched = clock]
    /\ UNCHANGED <<clock, wake>>

\* a trial draws its delay d and asyncio.sleep(d) sets its timer
TimedTrialStart(r, i) ==
    /\ TrialStartStep(r, i)
    /\ \E d \in Delays : wake' = [wake EXCEPT ![r] = (i :> (clock + d)) @@ @]
    /\ UNCHANGED <<clock, stamp>>

\* the timer of the trial is due and the loop is free to resume the trial
TimedTrialFinish(r, i) ==
    /\ i \in DOMAIN wake[r]
    /\ clock >= wake[r][i]
    /\ TrialFinishStep(r, i)
    /\ UNCHANGED timevars

\* /roll-async: the instant the response is produced
TimedBatchRespond(r) ==
    /\ BatchRespondStep(r)
    /\ stamp' = [stamp EXCEPT ![r].completed = clock]
    /\ UNCHANGED <<clock, wake>>

\* a step that the loop takes before any more time passes
Urgent ==
    \/ /\ running = 0
       /\ \E r \in Reqs :
             \/ req[r].pc = "queued"
             \/ req[r].pc = "gathering" /\ gather[r].state # "pending"
             \/ \E i \in DOMAIN wake[r] :
                   /\ req[r].endpoint = "roll_async"
                   /\ trial[r][i].state = "Delaying"
                   /\ clock >= wake[r][i]
    \/ /\ running # 0
       /\ \/ req[running].pc \in {"resolved", "starting"}
          \/ req[running].pc = "sleeping" /\ clock >= wake[running][0]

\* time passes
Tick ==
    /\ clock < MaxClock
    /\ ~Urgent
    /\ clock' = clock + 1
    /\ UNCHANGED <<store, req, trial, gather, running, resp, gw, gwresp, span,
                   gwstart, wake, stamp, obsvars, svcvars>>

(* ------------------------------------------------------------------ *)
(* Gateway (frontend).  Its handlers block in requests.get, so the      *)
(* gateway serves one forwarded request at a time.                      *)
(* ------------------------------------------------------------------ *)
\* times: int = Query(..., ge=1, le=20)
GwValidTimesNoLower(times) == times <= MaxTimes
GwValidTimes(times) == times >= MinTimes /\ times <= MaxTimes

\* what the handler learns of the call to the Roll Engine, with the trace id
\* of the handler's current span
Backend(kind, r, sp) == [kind |-> kind, resp |-> IF kind = "response" THEN resp[r] ELSE NoResp,
                         trace_id |-> sp.trace_id]

\* frontend_requests_total at the end of the handler: the else branch counts
\* "error" and raises inside the try, "except Exception" counts it again
GwCounts(m, ans) ==
    IF ans.kind = "timeout" THEN Inc(m, "frontend_requests_total", "timeout")
    ELSE IF ans.kind = "connection_error"
    THEN Inc(m, "frontend_requests_total", "connection_error")
    ELSE IF ans.resp.status = 200 THEN Inc(m, "frontend_requests_total", "success")
    ELSE Inc(Inc(m, "frontend_requests_total", "error"),
             "frontend_requests_total", "error")

\* the success branch returning the backend body as it came
GwOutcomeBodyOnly(ans) ==
    IF ans.kind = "timeout"
    THEN [status |-> 504, detail |-> <<"Backend request timed out">>]
    ELSE IF ans.kind = "connection_error"
    THEN [status |-> 503, detail |-> <<"Could not connect to backend">>]
    ELSE IF ans.resp.status = 200
    THEN ans.resp
    ELSE [status |-> 500,
          detail |-> <<"HTTPException", ans.resp.status, "Backend error">>]

\* the gateway handler's try block and its except clauses; ans is what
\* requests.get on the Roll Engine produced
GwOutcomeBadGateway(ans) ==
    IF ans.kind = "timeout"
    THEN [status |-> 504, detail |-> <<"Backend request timed out">>]
    ELSE IF ans.kind = "connection_error"
    THEN [status |-> 503, detail |-> <<"Could not connect to backend">>]
    ELSE IF ans.resp.status = 200
    THEN [f \in DOMAIN ans.resp \cup {"trace_id"} |->
             IF f = "trace_id" THEN ans.trace_id ELSE ans.resp[f]]
    ELSE [status |-> 502,
          detail |-> <<"HTTPException", ans.resp.status, "Backend error">>]
GwOutcomeTimeoutAs503(ans) ==
    IF ans.kind \in {"timeout", "connection_error"}
    THEN [status |-> 503, detail |-> <<"Could not connect to backend">>]
    ELSE IF ans.resp.status = 200
    THEN [f \in DOMAIN ans.resp \cup {"trace_id"} |->
             IF f = "trace_id" THEN ans.trace_id ELSE ans.resp[f]]
    ELSE [status |-> 500,
          detail |-> <<"HTTPException", ans.resp.status, "Backend error">>]
GwOutcome(ans) ==
    IF ans.kind = "timeout"
    THEN [status |-> 504, detail |-> <<"Backend request timed out">>]
    ELSE IF ans.kind = "connection_error"
    THEN [status |-> 503, detail |-> <<"Could not connect to backend">>]
    ELSE IF ans.resp.status = 200
    THEN [f \in DOMAIN ans.resp \cup {"trace_id"} |->
             IF f = "trace_id" THEN ans.trace_id ELSE ans.resp[f]]
    \* the HTTPException raised in the else branch is caught by
    \* "except Exception" of the same try
    ELSE [status |-> 500,
          detail |-> <<"HTTPException", ans.resp.status, "Backend error">>]

\* What requests.get(DIE_SERVICE_URL/dice, timeout=3.0) can produce at startup:
\* the store's list, a 200 answer without "identifiers", a 200 answer whose
\* body is not JSON, a non-200 answer, a timeout or a connection failure.
ListAnswers(st) ==
    { StoreList(st),
      [kind |-> "response", status |-> 200, body |-> [service |-> "die-service"]],
      [kind |-> "response", status |-> 200, body |-> [malformed |-> TRUE]],
      StoreServerError("list"),
      [kind |-> "timeout", status |-> 0, body |-> None],
      [kind |-> "connection_error", status |-> 0, body |-> None] }

\* response.json() raises on a body that is not JSON
JsonDecodes(body) == "malformed" \notin DOMAIN body

\* fetch_available_die_types: the new value of the cached list
FetchReplacingAlways(current, ans) ==
    IF ans.kind = "response" /\ ans.status = 200 /\ JsonDecodes(ans.body)
    THEN Get(ans.body, "identifiers", <<>>)
    ELSE current
fetch_available_die_types(current, ans) ==
    IF ans.kind # "response" THEN current             \* except Exception
    ELSE IF ans.status # 200 THEN current             \* logged as error
    ELSE IF ~JsonDecodes(ans.body) THEN current       \* except Exception
    ELSE LET identifiers == Get(ans.body, "identifiers", <<>>) IN
         IF identifiers # <<>> THEN identifiers ELSE current

\* startup_event: the pre-fetch runs once, before the Gateway serves requests
GwStartup ==
    /\ startup.state = "pending"
    /\ \E ans \in ListAnswers(store) :
         /\ available_die_types' = fetch_available_die_types(available_die_types, ans)
         /\ startup' = [state |-> "done", fetched |-> ans]
    /\ UNCHANGED <<store, req, trial, gather, running, resp, gw, gwresp, span, timevars, obsvars, svcvars>>

GwBusy == \E q \in Reqs : gw[q] = "waiting"

\* a client calls the gateway: validation, then the call is forwarded
GwRequest(r) ==
    /\ startup.state = "done"
    /\ NextToIssue(r)
    /\ ~GwBusy
    /\ \E ep \in Endpoints : \E die \in DiceOf(store) : \E times \in TimesFor(ep) :
         IF ep = "roll_async" /\ ~GwValidTimes(times)
         THEN /\ req' = [req EXCEPT ![r] = [NoReq EXCEPT !.via = "gateway",
                            !.endpoint = ep, !.die = die, !.times = times,
                            !.gwspan = GwSpan(r)]]
              /\ gw' = [gw EXCEPT ![r] = "rejected"]
              /\ gwresp' = [gwresp EXCEPT ![r] = ValidationError]
              /\ resp' = resp
              /\ metrics' = metrics
         ELSE \E connected \in BOOLEAN :
              IF connected
              THEN /\ EngAccept(r, "gateway", ep, die, times)
                   /\ gw' = [gw EXCEPT ![r] = "waiting"]
                   /\ gwresp' = gwresp
                   /\ metrics' = [metrics EXCEPT ![r] =
                          Inc(@, "frontend_requests_total", "received")]
              ELSE /\ req' = [req EXCEPT ![r] = [NoReq EXCEPT !.via = "gateway",
                            !.endpoint = ep, !.die = die, !.times = times,
                            !.gwspan = GwSpan(r)]]
                   /\ gw' = [gw EXCEPT ![r] = "connection_error"]
                   /\ gwresp' = [gwresp EXCEPT ![r] =
                          GwOutcome(Backend("connection_error", r, GwSpan(r)))]
                   /\ resp' = resp
                   /\ metrics' = [metrics EXCEPT ![r] =
                          GwCounts(Inc(@, "frontend_requests_total", "received"),
                                   Backend("connection_error", r, GwSpan(r)))]
    /\ UNCHANGED <<store, trial, gather, running, span, gwstart, timevars, gauge, svcvars>>

\* the Roll Engine's answer arrives
GwResponse(r) ==
    /\ gw[r] = "waiting"
    /\ resp[r].status # 0
    /\ gw' = [gw EXCEPT ![r] = "response"]
    /\ gwresp' = [gwresp EXCEPT ![r] = GwOutcome(Backend("response", r, req[r].gwspan))]
    /\ metrics' = [metrics EXCEPT ![r] = GwCounts(@, Backend("response", r, req[r].gwspan))]
    /\ UNCHANGED <<store, req, trial, gather, running, resp, span, gwstart, timevars, gauge, svcvars>>

\* requests.get times out before the Roll Engine answered
GwTimeout(r) ==
    /\ gw[r] = "waiting"
    /\ resp[r].status = 0
    /\ gw' = [gw EXCEPT ![r] = "timeout"]
    /\ gwresp' = [gwresp EXCEPT ![r] = GwOutcome(Backend("timeout", r, req[r].gwspan))]
    /\ metrics' = [metrics EXCEPT ![r] = GwCounts(@, Backend("timeout", r, req[r].gwspan))]
    /\ UNCHANGED <<store, req, trial, gather, running, resp, span, gwstart, timevars, gauge, svcvars>>

(* ------------------------------------------------------------------ *)
(* Specifications                                                       *)
(* ------------------------------------------------------------------ *)
\* the steps of the Roll Engine's event loop
EngineNext ==
    \E r \in Reqs :
       \/ EngLookupStart(r)
       \/ EngLookupDone(r)
       \/ RollDelay(r)
       \/ RollDecide(r)
       \/ BatchLaunch(r)
       \/ \E i \in DOMAIN trial[r] : TrialStart(r, i)
       \/ \E i \in DOMAIN trial[r] : TrialFinish(r, i)
       \/ BatchRespond(r)

\* Roll Engine called directly by its clients
Next ==
    \/ \E r \in Reqs : EngRequest(r)
    \/ EngineNext

Spec == Init /\ [][Next]_vars

\* the event loop keeps running: a step it can take is eventually taken
FairSpec == Spec /\ WF_vars(EngineNext)

\* Gateway in front of the Roll Engine, one client request
GatewayInit ==
    /\ store \in StoreContents
    /\ req = [r \in Reqs |-> IF r = 1 THEN NoReq ELSE ClosedReq]
    /\ trial = [r \in Reqs |-> NoTrials]
    /\ gather = [r \in Reqs |-> NoGather]
    /\ running = 0
    /\ resp = [r \in Reqs |-> NoResp]
    /\ gw = [r \in Reqs |-> "none"]
    /\ gwresp = [r \in Reqs |-> NoResp]
    /\ span = [r \in Reqs |-> NoSpans]
    /\ available_die_types = DefaultDieTypes
    /\ startup = NotStarted
    /\ clock = 0
    /\ wake = [r \in Reqs |-> NoWake]
    /\ stamp = [r \in Reqs |-> NoStamp]
    /\ metrics = [r \in Reqs |-> NoMetrics]
    /\ gauge = 0
    /\ storecall = [r \in Reqs |-> NoCall]
    /\ xdy = NoXdY
    /\ both = NoBoth
    /\ loki = <<>>
    /\ usage_stats = <<>>
    /\ scraper = NoScraper

GatewayNext ==
    \/ GwStartup
    \/ \E r \in Reqs : EngRequest(r)
    \/ \E r \in Reqs : GwRequest(r)
    \/ \E r \in Reqs : GwResponse(r)
    \/ \E r \in Reqs : GwTimeout(r)
    \/ EngineNext

GatewaySpec == GatewayInit /\ [][GatewayNext]_vars

\* Roll Engine called directly, with time
TimedInit ==
    /\ store = FairStore
    /\ req = [r \in Reqs |-> NoReq]
    /\ trial = [r \in Reqs |-> NoTrials]
    /\ gather = [r \in Reqs |-> NoGather]
    /\ running = 0
    /\ resp = [r \in Reqs |-> NoResp]
    /\ gw = [r \in Reqs |-> "none"]
    /\ gwresp = [r \in Reqs |-> NoResp]
    /\ span = [r \in Reqs |-> NoSpans]
    /\ available_die_types = DefaultDieTypes
    /\ startup = NotStarted
    /\ clock = 0
    /\ wake = [r \in Reqs |-> NoWake]
    /\ stamp = [r \in Reqs |-> NoStamp]
    /\ metrics = [r \in Reqs |-> NoMetrics]
    /\ gauge = 0
    /\ storecall = [r \in Reqs |-> NoCall]
    /\ xdy = NoXdY
    /\ both = NoBoth
    /\ loki = <<>>
    /\ usage_stats = <<>>
    /\ scraper = NoScraper

TimedEngineNext ==
    \E r \in Reqs :
       \/ EngLookupStart(r)
       \/ EngLookupDone(r)
       \/ TimedRollDelay(r)
       \/ TimedRollDecide(r)
       \/ TimedBatchLaunch(r)
       \/ \E i \in DOMAIN trial[r] : TimedTrialStart(r, i)
       \/ \E i \in DOMAIN trial[r] : TimedTrialFinish(r, i)
       \/ TimedBatchRespond(r)

TimedNext ==
    \/ \E r \in Reqs : EngRequest(r)
    \/ TimedEngineNext
    \/ Tick

TimedSpec == TimedInit /\ [][TimedNext]_vars

\* the external administrative process replaces the stored specifications
StoreUpdate ==
    /\ \E st \in StoreVersions \ {store} : store' = st
    /\ UNCHANGED <<req, trial, gather, running, resp, gw, gwresp, span, gwstart,
                   timevars, obsvars, svcvars>>

\* Roll Engine called directly while the store is being updated
UpdateInit ==
    /\ store = FairStore
    /\ req = [r \in Reqs |-> NoReq]
    /\ trial = [r \in Reqs |-> NoTrials]
    /\ gather = [r \in Reqs |-> NoGather]
    /\ running = 0
    /\ resp = [r \in Reqs |-> NoResp]
    /\ gw = [r \in Reqs |-> "none"]
    /\ gwresp = [r \in Reqs |-> NoResp]
    /\ span = [r \in Reqs |-> NoSpans]
    /\ available_die_types = DefaultDieTypes
    /\ startup = NotStarted
    /\ clock = 0
    /\ wake = [r \in Reqs |-> NoWake]
    /\ stamp = [r \in Reqs |-> NoStamp]
    /\ metrics = [r \in Reqs |-> NoMetrics]
    /\ gauge = 0
    /\ storecall = [r \in Reqs |-> NoCall]
    /\ xdy = NoXdY
    /\ both = NoBoth
    /\ loki = <<>>
    /\ usage_stats = <<>>
    /\ scraper = NoScraper

UpdateNext ==
    \/ StoreUpdate
    \/ \E r \in Reqs : EngRequest(r)
    \/ EngineNext

UpdateSpec == UpdateInit /\ [][UpdateNext]_vars

\* Specification Store alone: clients read it, each call answered at once
SubStores == {[id \in S |-> DieStore[id]] : S \in SUBSET DOMAIN DieStore}
StoreStages(st) == IF Complete(st) THEN {"stage3", "stage5"} ELSE {"stage3"}
DbOutcomes(stage) ==
    IF stage = "stage5" THEN BOOLEAN \X BOOLEAN ELSE {<<TRUE, TRUE>>}

StoreRequest(c) ==
    /\ \E stage \in StoreStages(store) :
       \E identifier \in DiceOf(store) \cup {NoIdentifier} :
       \E ok \in DbOutcomes(stage) :
          storecall' = [storecall EXCEPT ![c] =
              [stage |-> stage, identifier |-> identifier, db |-> ok,
               answer |-> get_die_specifications(stage, store, identifier, ok)]]
    /\ UNCHANGED <<store, req, trial, gather, running, resp, gw, gwresp, span, gwstart,
                   timevars, obsvars, xdy, both, rcvvars>>

StoreInit ==
    /\ store \in StoreContents \cup SubStores
    /\ req = [r \in Reqs |-> NoReq]
    /\ trial = [r \in Reqs |-> NoTrials]
    /\ gather = [r \in Reqs |-> NoGather]
    /\ running = 0
    /\ resp = [r \in Reqs |-> NoResp]
    /\ gw = [r \in Reqs |-> "none"]
    /\ gwresp = [r \in Reqs |-> NoResp]
    /\ span = [r \in Reqs |-> NoSpans]
    /\ available_die_types = DefaultDieTypes
    /\ startup = NotStarted
    /\ clock = 0
    /\ wake = [r \in Reqs |-> NoWake]
    /\ stamp = [r \in Reqs |-> NoStamp]
    /\ metrics = [r \in Reqs |-> NoMetrics]
    /\ gauge = 0
    /\ storecall = [r \in Reqs |-> NoCall]
    /\ xdy = NoXdY
    /\ both = NoBoth
    /\ loki = <<>>
    /\ usage_stats = <<>>
    /\ scraper = NoScraper

StoreNext == \E c \in Reqs : StoreRequest(c)

StoreSpec == StoreInit /\ [][StoreNext]_vars

\* Roll Engine called directly, one request, in front of a store that may
\* serve incomplete answers
LenientStore ==
    [nofaces |-> [error_rate |-> 1],
     norate  |-> [faces |-> <<3>>],
     fair    |-> [faces |-> <<1, 2>>, error_rate |-> 0]]

LenientInit ==
    /\ store = LenientStore
    /\ req = [r \in Reqs |-> IF r = 1 THEN NoReq ELSE ClosedReq]
    /\ trial = [r \in Reqs |-> NoTrials]
    /\ gather = [r \in Reqs |-> NoGather]
    /\ running = 0
    /\ resp = [r \in Reqs |-> NoResp]
    /\ gw = [r \in Reqs |-> "none"]
    /\ gwresp = [r \in Reqs |-> NoResp]
    /\ span = [r \in Reqs |-> NoSpans]
    /\ available_die_types = DefaultDieTypes
    /\ startup = NotStarted
    /\ clock = 0
    /\ wake = [r \in Reqs |-> NoWake]
    /\ stamp = [r \in Reqs |-> NoStamp]
    /\ metrics = [r \in Reqs |-> NoMetrics]
    /\ gauge = 0
    /\ storecall = [r \in Reqs |-> NoCall]
    /\ xdy = NoXdY
    /\ both = NoBoth
    /\ loki = <<>>
    /\ usage_stats = <<>>
    /\ scraper = NoScraper

LenientNext ==
    \/ \E r \in Reqs : EngRequest(r)
    \/ \E r \in Reqs : EngLookupForeign(r)
    \/ EngineNext

LenientSpec == LenientInit /\ [][LenientNext]_vars

(* ------------------------------------------------------------------ *)
(* The hard-coded roller (stage 2) and the specification-driven roller   *)
(* (stage 3) on the dice "fair" and "risky"; draws in units of           *)
(* 1/DrawSteps                                                           *)
(* ------------------------------------------------------------------ *)
\* the store entries of the two named dice
NamedStore ==
    [fair  |-> [faces |-> <<1, 2, 3, 4, 5, 6>>, error_rate |-> 0],
     risky |-> [faces |-> <<2, 3, 4, 5, 6, 7>>, error_rate |-> 1]]

\* stage 2 roll_die after the delay: u is random.random(), k is
\* random.randint(1, 6); the fair branch makes no fault draw
Stage2RollUnshifted(die, u, k) ==
    IF die = "fair" THEN [status |-> 200, roll |-> k]
    ELSE IF u < 1 THEN [status |-> 500, detail |-> <<"Risky die failed!">>]
    ELSE [status |-> 200, roll |-> k]
Stage2Roll(die, u, k) ==
    IF die = "fair" THEN [status |-> 200, roll |-> k]
    ELSE IF u < 1 THEN [status |-> 500, detail |-> <<"Risky die failed!">>]
    ELSE [status |-> 200, roll |-> k + 1]

\* stage 3 roll_die after a successful lookup and the delay: u is
\* random.random(), k is the position random.choice(faces) picks
Stage3Roll(die, spec, u, k) ==
    LET faces == Get(spec, "faces", DefaultFaces)
        error_rate == Get(spec, "error_rate", DefaultErrorRate)
    IN IF u < error_rate
       THEN [status |-> 500, detail |-> <<"Die failed!", die>>]
       ELSE [status |-> 200, roll |-> faces[k]]

\* one request to each roller, decided by the same fault draw and face draw
RollBoth ==
    /\ both = NoBoth
    /\ loki = <<>>
    /\ usage_stats = <<>>
    /\ scraper = NoScraper
    /\ \E die \in DOMAIN NamedStore : \E u \in 0..(DrawSteps - 1) :
       \E k \in 1..Len(NamedStore[die].faces) :
          both' = [die |-> die, u |-> u, k |-> k,
                   stage2 |-> Stage2Roll(die, u, k),
                   stage3 |-> Stage3Roll(die, NamedStore[die], u, k)]
    /\ UNCHANGED <<store, req, trial, gather, running, resp, gw, gwresp, span, gwstart,
                   timevars, obsvars, storecall, xdy, rcvvars>>

BothInit ==
    /\ store = NamedStore
    /\ req = [r \in Reqs |-> NoReq]
    /\ trial = [r \in Reqs |-> NoTrials]
    /\ gather = [r \in Reqs |-> NoGather]
    /\ running = 0
    /\ resp = [r \in Reqs |-> NoResp]
    /\ gw = [r \in Reqs |-> "none"]
    /\ gwresp = [r \in Reqs |-> NoResp]
    /\ span = [r \in Reqs |-> NoSpans]
    /\ available_die_types = DefaultDieTypes
    /\ startup = NotStarted
    /\ clock = 0
    /\ wake = [r \in Reqs |-> NoWake]
    /\ stamp = [r \in Reqs |-> NoStamp]
    /\ metrics = [r \in Reqs |-> NoMetrics]
    /\ gauge = 0
    /\ storecall = [r \in Reqs |-> NoCall]
    /\ xdy = NoXdY
    /\ both = NoBoth
    /\ loki = <<>>
    /\ usage_stats = <<>>
    /\ scraper = NoScraper

BothNext == RollBoth

BothSpec == BothInit /\ [][BothNext]_vars

(* ------------------------------------------------------------------ *)
(* Usage-stats receiver: the scrape loop polls the log backend and      *)
(* stores the usage log entries in the table usage_stats                *)
(* ------------------------------------------------------------------ *)
\* a log entry held by the backend: timestamp, stream labels, log line; a
\* line is a JSON object with usage = true ("usage"), a JSON object without
\* it ("no_usage"), JSON that is not an object ("not_object"), or no JSON
LogEntry(ts, labels, line) == [timestamp_ns |-> ts, labels |-> labels, line |-> line]
FrontendA == [compose_service |-> "frontend", container |-> "a"]
FrontendB == [compose_service |-> "frontend", container |-> "b"]
Unlabelled == [job |-> "docker"]
LogVariants ==
    { <<LogEntry(30, FrontendA, "usage"), LogEntry(30, FrontendB, "usage"),
        LogEntry(90, Unlabelled, "usage")>>,
      <<LogEntry(30, FrontendA, "usage"), LogEntry(90, FrontendA, "not_json"),
        LogEntry(90, FrontendB, "no_usage"), LogEntry(150, Unlabelled, "usage")>>,
      <<LogEntry(30, FrontendA, "usage"), LogEntry(150, FrontendB, "not_object")>> }

\* what requests.get(query_range, timeout=10) can produce for the window
LokiAnswers(log, start, end) ==
    { [kind |-> "error", status |-> 0, api |-> "none", values |-> <<>>],
      [kind |-> "response", status |-> 500, api |-> "none", values |-> <<>>],
      [kind |-> "response", status |-> 200, api |-> "error", values |-> <<>>],
      [kind |-> "response", status |-> 200, api |-> "success",
       values |-> SelectSeq(log, LAMBDA e : start <= e.timestamp_ns /\ e.timestamp_ns <= end)] }

\* query_loki_for_usage_logs: an exception anywhere (also log_data.get on a
\* line that is not an object) gives []; a line that is no JSON is skipped
query_loki_for_usage_logs(ans) ==
    IF ans.kind # "response" \/ ans.status # 200 \/ ans.api # "success" THEN <<>>
    ELSE IF \E j \in 1..Len(ans.values) : ans.values[j].line = "not_object" THEN <<>>
    ELSE LET kept == SelectSeq(ans.values, LAMBDA e : e.line = "usage")
         IN [j \in 1..Len(kept) |->
               [timestamp_ns |-> kept[j].timestamp_ns, labels |-> kept[j].labels,
                data |-> kept[j].line]]

\* SELECT id FROM usage_stats WHERE data->>'timestamp' = %s AND application = %s
AlreadyStoredByEvent(rows, entry) ==
    \E j \in 1..Len(rows) :
        /\ rows[j].data.timestamp = entry.timestamp_ns
        /\ rows[j].data.labels = entry.labels
AlreadyStored(rows, entry) ==
    \E j \in 1..Len(rows) :
        /\ rows[j].data.timestamp = entry.timestamp_ns
        /\ rows[j].application = Get(entry.labels, "compose_service", "unknown")

\* the row inserted for an entry
RowOf(entry) ==
    [data |-> [timestamp |-> entry.timestamp_ns, labels |-> entry.labels,
               data |-> entry.data],
     application |-> Get(entry.labels, "compose_service", "unknown")]

\* the for loop of store_usage_stats over the first n entries, inside one
\* transaction: the rows the connection sees after it
RECURSIVE Inserted(_, _, _)
Inserted(rows, log_entries, n) ==
    IF n = 0 THEN rows
    ELSE LET sofar == Inserted(rows, log_entries, n - 1)
         IN IF AlreadyStored(sofar, log_entries[n]) THEN sofar
            ELSE Append(sofar, RowOf(log_entries[n]))

\* where the database can fail during one call
DbFailures == {"none", "connect", "execute", "commit"}

\* store_usage_stats(log_entries) on the committed rows: the rows committed
\* after the call and how the call ended.  When psycopg2.connect raises,
\* "if conn:" in the except block reads a name that was never bound.
store_usage_stats(rows, log_entries, fail) ==
    IF log_entries = <<>> THEN [rows |-> rows, outcome |-> "returned", inserted |-> 0]
    ELSE IF fail = "connect" THEN [rows |-> rows, outcome |-> "raised", inserted |-> 0]
    ELSE IF fail \in {"execute", "commit"}
    THEN [rows |-> rows, outcome |-> "returned", inserted |-> 0]
    ELSE LET after == Inserted(rows, log_entries, Len(log_entries))
         IN [rows |-> after, outcome |-> "returned", inserted |-> Len(after) - Len(rows)]

\* the except block of the while loop: the loop goes on to its sleep
AfterIterationStopping(outcome) == IF outcome = "raised" THEN "stopped" ELSE "sleeping"
AfterIteration(outcome) == "sleeping"

\* start_time = end_time - timedelta(minutes=LOOKBACK_MINUTES)
WindowAt(now) == <<now - LOOKBACK_MINUTES * 60, now>>

\* one iteration of "while True" up to the sleep
Poll ==
    /\ scraper.pc = "polling"
    /\ \E ans \in LokiAnswers(loki, WindowAt(scraper.now)[1], WindowAt(scraper.now)[2]) :
       \E fail \in DbFailures :
         LET log_entries == query_loki_for_usage_logs(ans)
             call == store_usage_stats(usage_stats, log_entries, fail)
         IN /\ (log_entries = <<>>) => fail = "none"
            /\ usage_stats' = call.rows
            /\ scraper' = [scraper EXCEPT
                   !.pc = AfterIteration(call.outcome),
                   !.polls = @ + 1,
                   !.last_processed_timestamp =
                       IF call.outcome = "raised" THEN @ ELSE scraper.now,
                   !.iteration =
                       [window |-> WindowAt(scraper.now),
                        query |-> IF ans.kind # "response" THEN "error"
                                  ELSE IF ans.status # 200 THEN "non200"
                                  ELSE ans.api,
                        log_entries |-> log_entries, fail |-> fail,
                        before |-> usage_stats,
                        outcome |-> call.outcome, inserted |-> call.inserted]]
    /\ UNCHANGED <<store, req, trial, gather, running, resp, gw, gwresp, span, gwstart,
                   timevars, obsvars, storecall, xdy, both, loki>>

\* await asyncio.sleep(POLL_INTERVAL) ends
Wake ==
    /\ scraper.pc = "sleeping"
    /\ scraper.polls < MaxPolls
    /\ scraper' = [scraper EXCEPT !.pc = "polling", !.now = @ + POLL_INTERVAL]
    /\ UNCHANGED <<store, req, trial, gather, running, resp, gw, gwresp, span, gwstart,
                   timevars, obsvars, storecall, xdy, both, loki, usage_stats>>

ReceiverInit ==
    /\ store = EmptyStore
    /\ req = [r \in Reqs |-> NoReq]
    /\ trial = [r \in Reqs |-> NoTrials]
    /\ gather = [r \in Reqs |-> NoGather]
    /\ running = 0
    /\ resp = [r \in Reqs |-> NoResp]
    /\ gw = [r \in Reqs |-> "none"]
    /\ gwresp = [r \in Reqs |-> NoResp]
    /\ span = [r \in Reqs |-> NoSpans]
    /\ available_die_types = DefaultDieTypes
    /\ startup = NotStarted
    /\ clock = 0
    /\ wake = [r \in Reqs |-> NoWake]
    /\ stamp = [r \in Reqs |-> NoStamp]
    /\ metrics = [r \in Reqs |-> NoMetrics]
    /\ gauge = 0
    /\ storecall = [r \in Reqs |-> NoCall]
    /\ xdy = NoXdY
    /\ both = NoBoth
    /\ loki \in LogVariants
    /\ usage_stats = <<>>
    /\ scraper = [NoScraper EXCEPT !.now = POLL_INTERVAL]

ReceiverNext == Poll \/ Wake

ReceiverSpec == ReceiverInit /\ [][ReceiverNext]_vars

\* the process keeps running: the loop body and the sleep both end
ReceiverFairSpec == ReceiverSpec /\ WF_vars(Poll) /\ WF_vars(Wake)

(* ------------------------------------------------------------------ *)
(* XdY roller (GET /roll/{dice})                                        *)
(* ------------------------------------------------------------------ *)
\* characters of the path parameter; "LF" is the line feed
DigitChars == {"0", "1", "2"}
Alphabet == DigitChars \cup {"d", "D", "x", "LF"}
Strings == UNION {[1..k -> Alphabet] : k \in 1..MaxLen}

\* str.lower()
lower(s) == [i \in 1..Len(s) |-> IF s[i] = "D" THEN "d" ELSE s[i]]

DigitValue(c) == IF c = "0" THEN 0 ELSE IF c = "1" THEN 1 ELSE 2
\* int() of a string of decimal digits
RECURSIVE int(_)
int(ds) ==
    IF ds = <<>> THEN 0
    ELSE 10 * int(SubSeq(ds, 1, Len(ds) - 1)) + DigitValue(ds[Len(ds)])

\* the whole of t is (\d+)d(\d+), split at position p
SplitsAt(t, p) ==
    /\ 1 < p /\ p < Len(t)
    /\ t[p] = "d"
    /\ \A i \in 1..Len(t) : i # p => t[i] \in DigitChars
\* "$" matches at the end of the string and before a line feed that ends it
EndsOf(s) ==
    {s} \cup (IF Len(s) >= 1 /\ s[Len(s)] = "LF"
              THEN {SubSeq(s, 1, Len(s) - 1)} ELSE {})
\* re.match(r"^(\d+)d(\d+)$", s): the two groups, or None
re_match(s) ==
    LET hits == {h \in EndsOf(s) \X (1..Len(s)) : SplitsAt(h[1], h[2])}
    IN IF hits = {} THEN None
       ELSE LET h == CHOOSE x \in hits : TRUE
            IN [group1 |-> SubSeq(h[1], 1, h[2] - 1),
                group2 |-> SubSeq(h[1], h[2] + 1, Len(h[1]))]

\* the path parameters the clients send
Inputs ==
    {s \in Strings :
        LET m == re_match(lower(s))
        IN IsNone(m) \/ (int(m.group1) <= MaxDice /\ int(m.group2) <= MaxSides)}

InvalidFormat == [status |-> 400, rolls |-> <<>>, total |-> 0]

\* roll_dice(dice)
roll_dice ==
    /\ xdy = NoXdY
    /\ both = NoBoth
    /\ loki = <<>>
    /\ usage_stats = <<>>
    /\ scraper = NoScraper
    /\ \E dice \in Inputs :
         LET match == re_match(lower(dice)) IN
         IF IsNone(match)
         THEN xdy' = [dice |-> dice] @@ InvalidFormat
         ELSE LET num_dice  == int(match.group1)
                  num_sides == int(match.group2)
              IN IF num_dice <= 0 \/ num_sides <= 0
                 THEN xdy' = [dice |-> dice] @@ InvalidFormat
                 ELSE \E rolls \in [1..num_dice -> 1..num_sides] :
                        xdy' = [dice |-> dice, status |-> 200,
                                rolls |-> rolls, total |-> Sum(rolls)]
    /\ UNCHANGED <<store, req, trial, gather, running, resp, gw, gwresp, span, gwstart,
                   timevars, obsvars, storecall, both, rcvvars>>

XdYInit ==
    /\ store = EmptyStore
    /\ req = [r \in Reqs |-> NoReq]
    /\ trial = [r \in Reqs |-> NoTrials]
    /\ gather = [r \in Reqs |-> NoGather]
    /\ running = 0
    /\ resp = [r \in Reqs |-> NoResp]
    /\ gw = [r \in Reqs |-> "none"]
    /\ gwresp = [r \in Reqs |-> NoResp]
    /\ span = [r \in Reqs |-> NoSpans]
    /\ available_die_types = DefaultDieTypes
    /\ startup = NotStarted
    /\ clock = 0
    /\ wake = [r \in Reqs |-> NoWake]
    /\ stamp = [r \in Reqs |-> NoStamp]
    /\ metrics = [r \in Reqs |-> NoMetrics]
    /\ gauge = 0
    /\ storecall = [r \in Reqs |-> NoCall]
    /\ xdy = NoXdY
    /\ both = NoBoth
    /\ loki = <<>>
    /\ usage_stats = <<>>
    /\ scraper = NoScraper

XdYNext == roll_dice

XdYSpec == XdYInit /\ [][XdYNext]_vars

(* ------------------------------------------------------------------ *)
(* Properties                                                           *)
(* ------------------------------------------------------------------ *)
Responded(r) == resp[r].status # 0
IsBatch(r) == Issued(r) /\ req[r].endpoint = "roll_async"
IsRoll(r) == Issued(r) /\ req[r].endpoint = "roll"
Launched(r) == gather[r].state # "none"
Terminal == {"Succeeded", "Failed"}
TrialStates(r) == {trial[r][i].state : i \in DOMAIN trial[r]}
ValueFields == {"roll", "rolls", "total", "count"}

RECURSIVE SumTrials(_, _)
SumTrials(ts, n) == IF n = 0 THEN 0 ELSE ts[n - 1].value + SumTrials(ts, n - 1)

\* C1: a batch is all-or-nothing: once a trial has failed the response is the
\* batch failure (500, no roll values, no total), and a 200 response means that
\* every one of the n trials succeeded.
C1_AllOrNothing ==
    \A r \in Reqs :
        (IsBatch(r) /\ Launched(r) /\ Responded(r)) =>
            /\ ("Failed" \in TrialStates(r)) =>
                  /\ resp[r].status = 500
                  /\ resp[r].detail[1] = "Async roll batch failed"
                  /\ DOMAIN resp[r] \cap ValueFields = {}
            /\ (resp[r].status = 200) =>
                  /\ DOMAIN trial[r] = 0..(req[r].times - 1)
                  /\ TrialStates(r) = {"Succeeded"}
            /\ resp[r].status \in {200, 500}

C1_Witness ==
    \E r \in Reqs :
        /\ IsBatch(r) /\ Responded(r)
        /\ resp[r].status = 500
        /\ TrialStates(r) = {"Succeeded", "Failed"}

\* C2: the batch failure response is produced only after every trial of the
\* batch has reached a terminal state (none is still Delaying).
C2_FailureAfterAllTrials ==
    \A r \in Reqs :
        (IsBatch(r) /\ Launched(r) /\ Responded(r) /\ resp[r].status = 500) =>
            TrialStates(r) \subseteq Terminal

\* C3: no cancellation: every trial of a launched batch eventually reaches a
\* terminal state, also after a sibling failed and the batch answered.  Trials
\* are never removed, so it is stated as: again and again every trial that
\* exists is Succeeded or Failed (a trial that is Scheduled or Delaying now is
\* terminal at the next such moment).
C3_NoCancellation ==
    []<>(\A r \in Reqs : TrialStates(r) \subseteq Terminal)

\* a failed batch answered before all its trials had settled, and the
\* remaining trials settled afterwards
C3_Witness ==
    \E r \in Reqs :
        /\ IsBatch(r) /\ Responded(r) /\ resp[r].status = 500
        /\ req[r].observed < req[r].times
        /\ TrialStates(r) \subseteq Terminal
        /\ Len(gather[r].order) = req[r].times

\* C4: in a successful batch, position i of the returned rolls holds the value
\* of the trial with index i, whatever the order in which the trials completed.
C4_ResultOrderIsIndexOrder ==
    \A r \in Reqs :
        (IsBatch(r) /\ Responded(r) /\ resp[r].status = 200) =>
            /\ Len(resp[r].rolls) = req[r].times
            /\ \A i \in 0..(req[r].times - 1) :
                  resp[r].rolls[i + 1] = trial[r][i].value

\* a successful batch whose trials completed in another order than their
\* indices and produced different values
C4_Witness ==
    \E r \in Reqs :
        /\ IsBatch(r) /\ Responded(r) /\ resp[r].status = 200
        /\ req[r].times >= 2
        /\ gather[r].order[1] # 0
        /\ resp[r].rolls[1] # resp[r].rolls[2]

\* C5: with fault probability 0 and non-empty faces a batch of n succeeds:
\* exactly n values, each a face of the specification, total their sum, count n.
C5_FaultFreeBatch ==
    \A r \in Reqs :
        (IsBatch(r) /\ req[r].lookup = "success" /\ req[r].error_rate = 0
            /\ req[r].faces # <<>>) =>
            /\ "Failed" \notin TrialStates(r)
            /\ Responded(r) =>
                  /\ resp[r].status = 200
                  /\ Len(resp[r].rolls) = req[r].times
                  /\ \A j \in 1..Len(resp[r].rolls) :
                        resp[r].rolls[j] \in Elems(req[r].faces)
                  /\ resp[r].total = SumTrials(trial[r], req[r].times)
                  /\ resp[r].count = req[r].times

C5_Witness ==
    \E r \in Reqs :
        /\ IsBatch(r) /\ req[r].lookup = "success" /\ req[r].error_rate = 0
        /\ req[r].times = MaxBatch
        /\ Responded(r) /\ resp[r].status = 200
        /\ resp[r].total > req[r].times

\* C6: with fault probability 0 and non-empty faces a single roll never fails
\* and returns an element of the specification's faces.
C6_FaultFreeRoll ==
    \A r \in Reqs :
        (IsRoll(r) /\ req[r].lookup = "success" /\ req[r].error_rate = 0
            /\ req[r].faces # <<>> /\ Responded(r)) =>
            /\ resp[r].status = 200
            /\ resp[r].roll \in Elems(store[req[r].die].faces)
            /\ trial[r][0] = [state |-> "Succeeded", value |-> resp[r].roll]

C6_Witness ==
    \E r \in Reqs :
        /\ IsRoll(r) /\ req[r].lookup = "success" /\ req[r].error_rate = 0
        /\ Responded(r) /\ resp[r].status = 200 /\ resp[r].roll = 2

\* C7: with fault probability 1 a single roll always fails: status 500, the
\* detail names the die, and no roll value is produced.
C7_CertainFault ==
    \A r \in Reqs :
        (IsRoll(r) /\ req[r].lookup = "success" /\ req[r].error_rate >= Scale
            /\ Responded(r)) =>
            /\ resp[r] = [status |-> 500, detail |-> <<"Die failed!", req[r].die>>]
            /\ trial[r][0] = [state |-> "Failed", value |-> 0]

C7_Witness ==
    \E r \in Reqs :
        /\ IsRoll(r) /\ req[r].lookup = "success" /\ req[r].error_rate >= Scale
        /\ Responded(r) /\ resp[r].status = 500

\* C8: a batch request whose count is outside [1,20] is a client error before
\* any trial executes: the Roll Engine answers 422 without a lookup or a trial,
\* and the Gateway answers 422 without forwarding a call to the Roll Engine.
C8_CountOutOfRangeRejected ==
    \A r \in Reqs :
        (IsBatch(r) /\ req[r].times \notin MinTimes..MaxTimes) =>
            /\ req[r].lookup = "none"
            /\ trial[r] = NoTrials
            /\ gather[r] = NoGather
            /\ (req[r].via = "direct") =>
                  /\ resp[r].status = 422
                  /\ req[r].pc = "rejected"
            /\ (req[r].via = "gateway") =>
                  /\ gwresp[r].status = 422
                  /\ req[r].pc = "none"
                  /\ resp[r] = NoResp

C8_Witness ==
    \E r \in Reqs :
        /\ IsBatch(r) /\ req[r].via = "gateway"
        /\ req[r].times = MaxTimes + 1
        /\ gwresp[r].status = 422

\* C9: a lookup ends in exactly one outcome; timeout, connection failure,
\* remote not-found and any other non-200 answer all give the caller the same
\* 503 with the same detail, and no delay, fault draw or face selection is made.
LookupFailures == {"timeout", "connection_error", "error_404", "error_500", "error"}

C9_LookupFailuresFolded ==
    \A r \in Reqs :
        /\ req[r].lookup \in {"none", "pending", "success"} \cup LookupFailures
        /\ (req[r].pc \in {"resolved", "sleeping", "starting", "gathering"})
              => req[r].lookup = "success"
        /\ (req[r].lookup \in LookupFailures) =>
              /\ req[r].pc = "done"
              /\ resp[r] = [status |-> 503,
                            detail |-> <<"Die service unavailable or die not found",
                                         req[r].die>>]
              /\ trial[r] = NoTrials
              /\ gather[r] = NoGather

C9_Witness ==
    \E r, q \in Reqs :
        /\ req[r].lookup = "error_404" /\ req[q].lookup = "timeout"
        /\ req[r].endpoint = "roll" /\ req[q].endpoint = "roll_async"
        /\ req[r].die = req[q].die
        /\ resp[r] = resp[q] /\ resp[r].status = 503

\* the kind of failure a request ran into
FailureKind(r) ==
    IF req[r].pc = "rejected" THEN "client_error"
    ELSE IF req[r].lookup = "error_404" THEN "not_found"
    ELSE IF req[r].lookup = "timeout" THEN "timeout"
    ELSE IF req[r].lookup \in {"connection_error", "error_500", "error"}
         THEN "unavailable"
    ELSE "none"

\* C10 as stated: the status code tells client error, not-found die, timeout
\* and unavailable downstream apart: two requests that failed in different
\* ones of these ways got different status codes.
C10_StatusDistinguishesFourKinds ==
    \A r, q \in Reqs :
        (FailureKind(r) # "none" /\ FailureKind(q) # "none"
            /\ FailureKind(r) # FailureKind(q)) =>
            resp[r].status # resp[q].status

\* C10 amended: the status code tells a client error (422) apart from a failed
\* lookup, but not-found die, lookup timeout and unavailable downstream are
\* folded into the one status 503.
C10_StatusFoldsLookupFailures ==
    \A r \in Reqs :
        /\ (FailureKind(r) = "client_error") => resp[r].status = 422
        /\ (FailureKind(r) \in {"not_found", "timeout", "unavailable"}) =>
              resp[r].status = 503

C10_Witness ==
    \E r, q \in Reqs :
        /\ FailureKind(r) = "not_found" /\ FailureKind(q) = "unavailable"
        /\ resp[r].status = resp[q].status

\* the lookup of request r has ended
LookedUp(r) == req[r].lookup \notin {"none", "pending"}
\* request r went on to roll
Rolled(r) == trial[r] # NoTrials
FullSpec(sp) == {"faces", "error_rate"} \subseteq DOMAIN sp

\* C11: a lookup of an identifier the store does not hold always fails (the
\* store answers 404 or the lookup breaks, the engine answers 503 and rolls
\* nothing), and the engine never rolls with a partial specification: a
\* request that rolls does so with the faces and the fault probability of a
\* stored specification that has both.
C11_UnknownFailsAndNoPartialRoll ==
    \A r \in Reqs :
        /\ (LookedUp(r) /\ req[r].die \notin DOMAIN store) =>
              /\ req[r].lookup # "success"
              /\ resp[r] = SpecUnavailable(req[r].die)
              /\ ~Rolled(r)
        /\ Rolled(r) =>
              /\ req[r].die \in DOMAIN store
              /\ FullSpec(store[req[r].die])
              /\ req[r].faces = store[req[r].die].faces
              /\ req[r].error_rate = store[req[r].die].error_rate

\* the store answered 404 for an unknown identifier and the engine answered 503
C11_Witness ==
    \E r \in Reqs :
        /\ req[r].die \notin DOMAIN store
        /\ req[r].lookup = "error_404"
        /\ resp[r].status = 503

\* a stored specification that lacks a field was asked for and was not rolled
C11_PartialWitness ==
    \E r \in Reqs :
        /\ req[r].die \in DOMAIN store
        /\ ~FullSpec(store[req[r].die])
        /\ req[r].lookup = "error_500"
        /\ resp[r].status = 503

ViaGateway(r) == req[r].via = "gateway"
\* the gateway's requests.get returned the Roll Engine's response
GwAnswered(r) == ViaGateway(r) /\ gw[r] = "response"
\* the Roll Engine's response is a die failure (of a roll or of a batch)
DieFailure(rsp) ==
    /\ rsp.status # 0 /\ rsp.status # 200
    /\ "detail" \in DOMAIN rsp
    /\ rsp.detail[1] \in {"Die failed!", "Async roll batch failed"}

\* C12: when the Roll Engine answers a forwarded request with a die failure,
\* the Gateway's response carries the status code the Roll Engine returned,
\* for /roll and for /roll-async.
C12_DieFailureStatusForwarded ==
    \A r \in Reqs :
        (GwAnswered(r) /\ DieFailure(resp[r])) =>
            gwresp[r].status = resp[r].status

\* a failed batch was forwarded
C12_Witness ==
    \E r \in Reqs :
        /\ GwAnswered(r) /\ DieFailure(resp[r])
        /\ req[r].endpoint = "roll_async"
        /\ gwresp[r].status = 500

\* a failed single roll was forwarded
C12_RollWitness ==
    \E r \in Reqs :
        /\ GwAnswered(r) /\ DieFailure(resp[r])
        /\ req[r].endpoint = "roll"
        /\ gwresp[r].status = 500

\* C13: a roll of an identifier the store does not hold, sent through the
\* Gateway: the Roll Engine answers 503 and the Gateway's response is the
\* unavailable outcome 503 as well.
C13_UnknownDieUnavailableEndToEnd ==
    \A r \in Reqs :
        (GwAnswered(r) /\ req[r].die \notin DOMAIN store) =>
            /\ resp[r].status = 503
            /\ gwresp[r].status = 503

\* the Roll Engine's half of C13 holds
C13_EngineUnavailable ==
    \A r \in Reqs :
        (GwAnswered(r) /\ req[r].die \notin DOMAIN store) => resp[r].status = 503

\* C14: the Gateway answers 504 when its call to the Roll Engine timed out and
\* 503 when the connection failed, and it answers 504 or 503 for no other
\* cause: never on a request for which it received the Roll Engine's answer.
C14_InfrastructureOutcomes ==
    \A r \in Reqs :
        /\ (ViaGateway(r) /\ gw[r] = "timeout") => gwresp[r].status = 504
        /\ (ViaGateway(r) /\ gw[r] = "connection_error") => gwresp[r].status = 503
        /\ (gwresp[r].status = 504) => gw[r] = "timeout"
        /\ (gwresp[r].status = 503) => gw[r] = "connection_error"
        /\ (GwAnswered(r) /\ DieFailure(resp[r])) => gwresp[r].status \notin {503, 504}

\* the call timed out at the Gateway while the Roll Engine was still rolling
C14_Witness ==
    \E r \in Reqs :
        /\ gw[r] = "timeout" /\ gwresp[r].status = 504
        /\ Rolled(r)

C14_ConnectionWitness ==
    \E r \in Reqs : gw[r] = "connection_error" /\ gwresp[r].status = 503

\* the pre-fetch got a 200 answer that carries a non-empty identifier list
FetchSucceeded(ans) ==
    /\ ans.kind = "response" /\ ans.status = 200
    /\ "identifiers" \in DOMAIN ans.body
    /\ ans.body.identifiers # <<>>

C15_FetchedWitness ==
    /\ startup.state = "done"
    /\ FetchSucceeded(startup.fetched)
    /\ available_die_types # DefaultDieTypes
    /\ Len(available_die_types) = 3

\* The state of trial i of a request (rq its handler record, ts its trials).
\* The one trial of a /roll request is Scheduled once the specification is
\* resolved and the delay has not begun.
TrialPhase(rq, ts, i) ==
    IF i \in DOMAIN ts THEN ts[i].state
    ELSE IF rq.endpoint = "roll" /\ rq.pc = "resolved" /\ i = 0 THEN "Scheduled"
    ELSE "none"

TrialIndices == 0..(MaxBatch - 1)

LifecycleSteps ==
    { <<"none", "Scheduled">>, <<"Scheduled", "Delaying">>,
      <<"Delaying", "Succeeded">>, <<"Delaying", "Failed">> }

\* the trial of r that makes its draw in this step, as a set
Drawing(r) ==
    IF req[r].endpoint = "roll"
    THEN IF req[r].pc = "sleeping" /\ req'[r].pc = "done" THEN {0} ELSE {}
    ELSE IF gather'[r].order # gather[r].order
         THEN {gather'[r].order[Len(gather'[r].order)]} ELSE {}

\* C16: every trial, of a single roll or of a batch, follows
\* Scheduled -> Delaying -> Succeeded(face) or Failed: each step of a trial is
\* one of these moves, a terminal trial keeps its state and its value, and a
\* trial is never retried: it draws once, and its draw ends it.
C16_TrialLifecycle ==
    [][\A r \in Reqs :
          /\ \A i \in TrialIndices :
               LET a == TrialPhase(req[r], trial[r], i)
                   b == TrialPhase(req'[r], trial'[r], i)
               IN  /\ a = b \/ <<a, b>> \in LifecycleSteps
                   /\ a \in Terminal => trial'[r][i] = trial[r][i]
          /\ \A i \in Drawing(r) :
               /\ trial[r][i].state = "Delaying"
               /\ trial'[r][i].state \in Terminal
               /\ \A j \in 1..Len(gather[r].order) : gather[r].order[j] # i
      ]_vars

\* a single roll ended, and a batch ended with one trial Succeeded and one Failed
C16_Witness ==
    \E r, q \in Reqs :
        /\ IsRoll(r) /\ TrialStates(r) \subseteq Terminal /\ Rolled(r)
        /\ IsBatch(q) /\ TrialStates(q) = {"Succeeded", "Failed"}

\* C17: the delay comes before the outcome: a trial becomes Succeeded or
\* Failed only in a step that starts with the trial Delaying, and a Scheduled
\* trial moves to Delaying and to nothing else.
C17_DelayBeforeOutcome ==
    [][\A r \in Reqs : \A i \in TrialIndices :
          LET a == TrialPhase(req[r], trial[r], i)
              b == TrialPhase(req'[r], trial'[r], i)
          IN  /\ (b \in Terminal /\ a \notin Terminal) => a = "Delaying"
              /\ (a = "Scheduled" /\ b # a) => b = "Delaying"
      ]_vars

\* a batch whose first trial has its outcome while the second is in its delay
C17_Witness ==
    \E r \in Reqs :
        /\ IsBatch(r) /\ DOMAIN trial[r] = {0, 1}
        /\ trial[r][0].state \in Terminal
        /\ trial[r][1].state = "Delaying"

\* request r is suspended: in its simulated delay or waiting for the lookup
InDelay(r) ==
    \/ req[r].pc = "sleeping"
    \/ req[r].pc = "gathering" /\ "Delaying" \in TrialStates(r)
InLookup(r) == req[r].pc = "lookup"

\* every step another request q is ready to take can be taken now
CanProgress(q) ==
    /\ (req[q].pc = "queued") => ENABLED EngLookupStart(q)
    /\ \A i \in DOMAIN trial[q] :
          (IsBatch(q) /\ trial[q][i].state = "Delaying") => ENABLED TrialFinish(q, i)
    /\ (req[q].pc = "gathering" /\ gather[q].state # "pending") => ENABLED BatchRespond(q)

\* C18: while one request of the Roll Engine is in its simulated delay or
\* waiting for the lookup, the other requests of the instance (the trials of
\* a batch included) can make progress.
C18_OthersProgressDuringWaits ==
    \A r, q \in Reqs :
        (r # q /\ (InDelay(r) \/ InLookup(r))) => CanProgress(q)

\* the part of C18 that the code has: the delays of batch trials
\* (await asyncio.sleep) leave the loop to the other requests
C18_BatchDelaysYield ==
    \A r, q \in Reqs :
        (r # q /\ req[r].pc = "gathering" /\ running = 0) => CanProgress(q)

RECURSIVE MaxOf(_)
MaxOf(S) ==
    IF S = {} THEN 0
    ELSE LET x == CHOOSE y \in S : TRUE
             m == MaxOf(S \ {x})
         IN  IF x > m THEN x ELSE m

\* the delays the trials of batch r drew, and the time the batch took
BatchDelays(r) == {wake[r][i] - stamp[r].launched : i \in DOMAIN wake[r]}
BatchDuration(r) == stamp[r].completed - stamp[r].launched
BatchSucceeded(r) ==
    IsBatch(r) /\ resp[r].status = 200 /\ stamp[r].completed >= 0

\* C19: the trials of a batch start together and their delays overlap: a
\* batch whose trials all succeed completes at the largest of its delays
\* after the launch.
C19_BatchCompletesAtMaxDelay ==
    \A r \in Reqs :
        BatchSucceeded(r) => BatchDuration(r) = MaxOf(BatchDelays(r))

\* the trials of a batch start together: each timer is set at the launch instant
C19_TrialsStartAtLaunch ==
    \A r \in Reqs : \A i \in DOMAIN wake[r] :
        IsBatch(r) =>
            /\ wake[r][i] >= stamp[r].launched
            /\ wake[r][i] - stamp[r].launched \in Delays

\* a batch completes no earlier than its largest delay, and exactly then when
\* no other request used the loop before the batch completed
C19_AloneCompletesAtMaxDelay ==
    \A r \in Reqs :
        BatchSucceeded(r) =>
            /\ BatchDuration(r) >= MaxOf(BatchDelays(r))
            /\ (\A q \in Reqs : q # r => req[q].pc \in {"none", "rejected"}) =>
                  BatchDuration(r) = MaxOf(BatchDelays(r))

\* C20: in a batch every trial that has started has its own span, and the
\* parent of that span is the span of the batch request, whatever the order
\* in which the trials ran: never the span of a sibling; a trial that has not
\* started has no span; and the span is ended exactly when the trial has
\* ended, by success or by failure.
C20_TrialSpans ==
    \A r \in Reqs :
        /\ DOMAIN span[r] \subseteq DOMAIN trial[r]
        /\ \A i \in DOMAIN trial[r] :
              IsBatch(r) =>
                 /\ (i \in DOMAIN span[r]) <=> (trial[r][i].state # "Scheduled")
                 /\ (i \in DOMAIN span[r]) =>
                       /\ span[r][i].parent = RequestSpan(r)
                       /\ span[r][i].parent.name # "async_roll"
                       /\ span[r][i].ended <=> (trial[r][i].state \in Terminal)

\* a batch of two: the span of the failed trial and the span of the
\* succeeded trial are both ended, the second trial having ended first
C20_Witness ==
    \E r \in Reqs :
        /\ IsBatch(r) /\ req[r].times = 2
        /\ DOMAIN span[r] = {0, 1}
        /\ span[r][0].ended /\ span[r][1].ended
        /\ TrialStates(r) = {"Succeeded", "Failed"}
        /\ gather[r].order = <<1, 0>>

\* span b is a child of span a, in the trace of a
ChildOf(b, a) == b.trace_id = a.trace_id /\ b.parent = a.span_id

\* C21: trace context is carried on both calls of an end-to-end request: the
\* span of the call at the Roll Engine is in the trace of the Gateway's span
\* and is a child of the span that was current in the Gateway when it made
\* the call (the client span of its requests.get, itself a child of the
\* handler's span); the same holds from the Roll Engine to the store; so all
\* spans of the request have one trace id.
C21_TraceContextPropagated ==
    \A r \in Reqs :
        /\ (ViaGateway(r) /\ req[r].engspan # NoSpan) =>
              /\ ChildOf(ClientSpan("gateway_client", r, req[r].gwspan), req[r].gwspan)
              /\ ChildOf(req[r].engspan, ClientSpan("gateway_client", r, req[r].gwspan))
              /\ req[r].engspan.trace_id = req[r].gwspan.trace_id
        /\ (req[r].storespan # NoSpan) =>
              /\ ChildOf(req[r].storespan, ClientSpan("engine_client", r, req[r].engspan))
              /\ req[r].storespan.trace_id = req[r].engspan.trace_id
        /\ (Issued(r) /\ req[r].via = "direct") =>
              req[r].engspan.parent = NoId

\* a request went Gateway -> Roll Engine -> store: three spans, one trace id
C21_Witness ==
    \E r \in Reqs :
        /\ ViaGateway(r) /\ req[r].engspan # NoSpan /\ req[r].storespan # NoSpan
        /\ req[r].gwspan.trace_id = Id("gateway", r)
        /\ req[r].engspan.trace_id = Id("gateway", r)
        /\ req[r].storespan.trace_id = Id("gateway", r)

\* the roll outcome counters request r incremented, in total
OutcomeCount(r) ==
    metrics[r].dice_rolls_total.success + metrics[r].dice_rolls_total.error
    + metrics[r].async_rolls_total.success + metrics[r].async_rolls_total.error

\* the values the Roll Engine returned for request r
ReturnedRolls(r) ==
    IF resp[r].status # 200 THEN <<>>
    ELSE IF req[r].endpoint = "roll" THEN <<resp[r].roll>> ELSE resp[r].rolls

\* the handler of request r ran to its end
Terminated(r) == Responded(r) /\ req[r].pc = "done"

\* C22: every request of /roll and /roll-async that ends (success, die
\* failure, batch failure, specification unavailable) has incremented a roll
\* outcome counter, and every successful roll has its value in the histogram
\* dice_roll_value.
C22_EveryPathCounted ==
    \A r \in Reqs :
        Terminated(r) =>
            /\ OutcomeCount(r) >= 1
            /\ metrics[r].dice_roll_value = ReturnedRolls(r)

\* what the code has: /roll counts every ending and observes its value
C22_RollCounted ==
    \A r \in Reqs :
        (Terminated(r) /\ req[r].endpoint = "roll") =>
            /\ OutcomeCount(r) = 1
            /\ metrics[r].dice_roll_value = ReturnedRolls(r)

\* the batch trials that have started and have not ended
InProgress ==
    { p \in Reqs \X TrialIndices :
        /\ IsBatch(p[1])
        /\ p[2] \in DOMAIN trial[p[1]]
        /\ trial[p[1]][p[2]].state = "Delaying" }

\* C30: async_rolls_in_progress always equals the number of batch trials
\* that have started and not ended; it is never negative; and it is 0 when
\* every trial of every launched batch has ended, failed trials and trials of
\* a batch that already answered with a failure included.
C30_GaugeCountsTrialsInProgress ==
    /\ gauge = Cardinality(InProgress)
    /\ gauge >= 0
    /\ (\A r \in Reqs : TrialStates(r) \subseteq Terminal) => gauge = 0

\* a batch answered its failure while a sibling was in progress (gauge 1),
\* and the gauge is back at 0 after that sibling ended
C30_Witness ==
    \E r \in Reqs :
        /\ IsBatch(r) /\ Responded(r) /\ resp[r].status = 500
        /\ req[r].observed < req[r].times
        /\ \A q \in Reqs : TrialStates(q) \subseteq Terminal
        /\ metrics[r].async_rolls_total.error >= 1
        /\ gauge = 0

\* the specification request r holds
Resolved(r) == req[r].pc \in {"resolved", "sleeping", "starting", "gathering", "done"}
                 /\ req[r].lookup = "success"

\* the outcomes of the trials of r agree with the specification r fetched
TrialsUseFetched(r) ==
    \A i \in DOMAIN trial[r] :
        /\ (trial[r][i].state = "Succeeded") =>
              /\ trial[r][i].value \in Elems(req[r].faces)
              /\ req[r].error_rate < Scale
        /\ (trial[r][i].state = "Failed") => req[r].error_rate > 0

\* C23: a request fetches its specification once and keeps it: the faces and
\* the fault probability it holds never change after the lookup, whatever
\* the store does meanwhile; every trial of a batch is decided with them; and
\* a lookup returns what the store holds at that moment, so that an update
\* is seen by the requests that look up after it.
C23_SpecificationFixedPerRequest ==
    /\ [](\A r \in Reqs : TrialsUseFetched(r))
    /\ [][\A r \in Reqs :
            /\ Resolved(r) =>
                  /\ req'[r].faces = req[r].faces
                  /\ req'[r].error_rate = req[r].error_rate
            /\ (~Resolved(r) /\ Resolved(r)') =>
                  /\ req'[r].faces = store[req[r].die].faces
                  /\ req'[r].error_rate = store[req[r].die].error_rate
       ]_vars

\* a batch rolled a face of the specification it fetched after the store had
\* been updated, while a later request got the updated specification
C23_Witness ==
    \E r, q \in Reqs :
        /\ IsBatch(r) /\ DOMAIN trial[r] = {0, 1}
        /\ req[r].faces # store["fair"].faces
        /\ trial[r][0].state = "Succeeded" /\ trial[r][1].state = "Succeeded"
        /\ Resolved(q) /\ req[q].faces = store["fair"].faces
        /\ q > r

\* the request entered its handler
InHandler(r) == req[r].pc \notin {"none", "rejected", "queued"}

\* C24: a roll request that enters its handler calls the Specification
\* Store exactly once, whatever the answer: a failed lookup is not repeated,
\* and a request never answers from the lookup of another request, each
\* answered lookup being the request's own single call.
C24_OneLookupPerRequest ==
    \A r \in Reqs :
        /\ req[r].calls = IF InHandler(r) THEN 1 ELSE 0
        /\ LookedUp(r) => req[r].calls = 1
        /\ (Responded(r) /\ req[r].pc # "rejected") => LookedUp(r)

\* two requests for the same die each made their own call and got
\* different answers: the first failed, the second succeeded
C24_Witness ==
    /\ req[1].die = req[2].die
    /\ LookedUp(1) /\ LookedUp(2)
    /\ req[1].lookup # "success" /\ req[2].lookup = "success"
    /\ req[1].pc = "done" /\ Responded(1)
    /\ req[1].calls = 1 /\ req[2].calls = 1

\* the Gateway forwarded the request and the Roll Engine answered 200
ForwardedSuccess(r) == gw[r] = "response" /\ resp[r].status = 200

\* C27: when the Roll Engine answered 200, the Gateway's answer is the
\* Engine's body with the field trace_id set to the trace id of the
\* Gateway's own span; every other field is the Engine's, unchanged, and no
\* other field is added or dropped.
C27_SuccessBodyPlusTraceId ==
    \A r \in Reqs : ForwardedSuccess(r) =>
        /\ DOMAIN gwresp[r] = DOMAIN resp[r] \cup {"trace_id"}
        /\ gwresp[r].trace_id = req[r].gwspan.trace_id
        /\ gwresp[r].trace_id # NoId
        /\ \A f \in DOMAIN resp[r] \ {"trace_id"} : gwresp[r][f] = resp[r][f]

\* a batch of two trials forwarded by the Gateway was answered with its rolls
C27_Witness ==
    \E r \in Reqs :
        /\ ForwardedSuccess(r)
        /\ req[r].endpoint = "roll_async" /\ req[r].times = 2
        /\ "rolls" \in DOMAIN gwresp[r] /\ Len(gwresp[r].rolls) = 2
        /\ "trace_id" \in DOMAIN gwresp[r]

\* frontend_requests_total of request r under a status label
GwCount(r, label) == metrics[r].frontend_requests_total[label]
TerminalStatuses == {"success", "error", "timeout", "connection_error"}
RECURSIVE SumCounts(_, _)
SumCounts(r, labels) ==
    IF labels = {} THEN 0
    ELSE LET l == CHOOSE x \in labels : TRUE
         IN GwCount(r, l) + SumCounts(r, labels \ {l})

\* the Gateway handler of r ran to its end
GwHandled(r) == gw[r] \in {"response", "timeout", "connection_error"}

\* C29: a Gateway request that reached the handler and was answered has
\* counted "received" once and exactly one terminal status once; a non-200
\* answer of the Roll Engine counts one "error".
C29_OneReceivedOneTerminal ==
    \A r \in Reqs : GwHandled(r) =>
        /\ GwCount(r, "received") = 1
        /\ SumCounts(r, TerminalStatuses) = 1
        /\ (gw[r] = "response" /\ resp[r].status # 200) => GwCount(r, "error") = 1

\* what the handlers do keep: "received" is counted once on entry, and no
\* request counts under two different terminal statuses
C29_ReceivedOnceOneLabel ==
    \A r \in Reqs :
        /\ GwCount(r, "received") = IF gw[r] \in {"none", "rejected"} THEN 0 ELSE 1
        /\ GwHandled(r) =>
              Cardinality({l \in TerminalStatuses : GwCount(r, l) > 0}) = 1

\* client c has listed the identifiers, resp. asked for one identifier
Listed(c) == storecall[c].stage # "none" /\ storecall[c].identifier = NoIdentifier
Asked(c) == storecall[c].stage # "none" /\ storecall[c].identifier # NoIdentifier
\* the database answered the handler's queries
DbAnswered(c) == storecall[c].db = <<TRUE, TRUE>>

\* C25: listing the identifiers never fails with a domain error: whatever
\* the store holds, the answer is 200 with each stored identifier exactly
\* once, the empty sequence for an empty store, unless the database
\* itself failed (500, an infrastructure failure).
C25_ListNeverFails ==
    \A c \in Reqs : Listed(c) =>
        LET a == storecall[c].answer IN
        /\ a.status \in {200, 500}
        /\ (a.status = 500) => (storecall[c].stage = "stage5" /\ ~storecall[c].db[1])
        /\ (a.status = 200) =>
              /\ Elems(a.body.identifiers) = DOMAIN store
              /\ Len(a.body.identifiers) = Cardinality(DOMAIN store)
              /\ (DOMAIN store = {}) => a.body.identifiers = <<>>

\* an empty store was listed and answered 200 with no identifier
C25_Witness ==
    \E c \in Reqs :
        /\ Listed(c) /\ DOMAIN store = {}
        /\ storecall[c].answer.status = 200
        /\ storecall[c].answer.body.identifiers = <<>>

WellFormed(s) ==
    \E p \in 1..Len(s) :
        /\ 1 < p /\ p < Len(s)
        /\ s[p] \in {"d", "D"}
        /\ \A i \in 1..Len(s) : i # p => s[i] \in DigitChars
\* X and Y of a well-formed input
LetterAt(s) == CHOOSE p \in 1..Len(s) : s[p] \in {"d", "D"}
XOf(s) == int(SubSeq(s, 1, LetterAt(s) - 1))
YOf(s) == int(SubSeq(s, LetterAt(s) + 1, Len(s)))

\* C28: an input XdY with X >= 1 and Y >= 1 is answered with exactly X
\* rolls, each in 1..Y, and their sum as total; every other input (not of
\* the form <digits>d<digits>, or X = 0, or Y = 0) is answered 400 and no
\* roll is made.
C28_XdYContract ==
    (xdy.status # 0) =>
        IF WellFormed(xdy.dice) /\ XOf(xdy.dice) >= 1 /\ YOf(xdy.dice) >= 1
        THEN /\ xdy.status = 200
             /\ Len(xdy.rolls) = XOf(xdy.dice)
             /\ \A i \in 1..Len(xdy.rolls) : xdy.rolls[i] \in 1..YOf(xdy.dice)
             /\ xdy.total = Sum(xdy.rolls)
        ELSE /\ xdy.status = 400
             /\ xdy.rolls = <<>>

\* what the handler does keep: every well-formed input is answered as the
\* claim says, and an input that is not well-formed is refused unless it is
\* a well-formed input followed by one line feed
C28_XdYUpToTrailingLineFeed ==
    (xdy.status # 0) =>
        LET s == xdy.dice
            t == IF Len(s) >= 1 /\ s[Len(s)] = "LF" THEN SubSeq(s, 1, Len(s) - 1) ELSE s
        IN IF WellFormed(t) /\ XOf(t) >= 1 /\ YOf(t) >= 1
           THEN /\ xdy.status = 200
                /\ Len(xdy.rolls) = XOf(t)
                /\ \A i \in 1..Len(xdy.rolls) : xdy.rolls[i] \in 1..YOf(t)
                /\ xdy.total = Sum(xdy.rolls)
           ELSE /\ xdy.status = 400
                /\ xdy.rolls = <<>>

\* the trials of r in a given state
TrialsIn(r, state) == {i \in DOMAIN trial[r] : trial[r][i].state = state}
AsyncCount(r, result) == metrics[r].async_rolls_total[result]

\* C31: each trial of a batch counts once in async_rolls_total: under
\* "success" exactly when it returned a face, under "error" exactly when it
\* failed, and not before it ended; once all trials of a batch have ended the
\* two counts add up to the number of trials launched, whether the batch
\* succeeded or failed.
C31_TrialsCountedOnce ==
    \A r \in Reqs : IsBatch(r) =>
        /\ AsyncCount(r, "success") = Cardinality(TrialsIn(r, "Succeeded"))
        /\ AsyncCount(r, "error") = Cardinality(TrialsIn(r, "Failed"))
        /\ (Launched(r) /\ TrialStates(r) \subseteq Terminal) =>
              AsyncCount(r, "success") + AsyncCount(r, "error") = req[r].times

\* a batch of two has failed and both its trials are counted, one under
\* each result
C31_Witness ==
    \E r \in Reqs :
        /\ IsBatch(r) /\ req[r].times = 2 /\ Launched(r)
        /\ resp[r].status = 500
        /\ TrialStates(r) = Terminal
        /\ AsyncCount(r, "success") = 1 /\ AsyncCount(r, "error") = 1

\* the lookup of r failed; a trial of r hit the simulated fault
LookupFailed(r) == LookedUp(r) /\ req[r].lookup # "success"
TrialFailed(r) == \E i \in DOMAIN trial[r] : trial[r][i].state = "Failed"

\* C32: the status of a Roll Engine answer tells a failed lookup from a
\* die failure: a request whose lookup failed is answered 503 on /roll and on
\* /roll-async, an answer given after a trial failed is 500, no other
\* answer is 503 or 500, and the die failure of /roll keeps its own detail
\* ("Die failed!", never "Internal server error").
C32_UnavailableAndFailureDistinct ==
    \A r \in Reqs : (Responded(r) /\ req[r].pc # "rejected") =>
        /\ LookupFailed(r) <=> resp[r].status = 503
        /\ (IsRoll(r) /\ TrialFailed(r)) =>
              resp[r] = [status |-> 500, detail |-> <<"Die failed!", req[r].die>>]
        /\ (IsBatch(r) /\ gather[r].state = "exception") =>
              /\ resp[r].status = 500
              /\ resp[r].detail[1] = "Async roll batch failed"
        /\ (resp[r].status = 500) => (~LookupFailed(r) /\ TrialFailed(r))

\* one request was refused for its lookup and another for a failed batch
C32_Witness ==
    \E r, q \in Reqs :
        /\ Responded(r) /\ LookupFailed(r) /\ resp[r].status = 503
        /\ Responded(q) /\ IsBatch(q) /\ TrialFailed(q) /\ resp[q].status = 500

\* the lookup of r was answered 200 and the specification get_die_specification
\* returned lacks faces or error_rate (or both, when the body had no
\* specification object)
IncompleteAnswer(r) == ~IsNone(req[r].spec) /\ ~FullSpec(req[r].spec)

\* C33: a 200 answer of the store never fails the lookup, also when its
\* body lacks the specification object or the specification lacks faces or
\* error_rate: the request is not answered 503, the missing faces become
\* 1..6 and the missing error rate 0, what the answer carried is kept, and
\* the roll is made with them.
C33_DefaultsForMissingParts ==
    \A r \in Reqs : (req[r].lookup = "success") =>
        /\ ~IsNone(req[r].spec)
        /\ req[r].faces = Get(req[r].spec, "faces", <<1, 2, 3, 4, 5, 6>>)
        /\ req[r].error_rate = Get(req[r].spec, "error_rate", 0)
        /\ Responded(r) =>
              /\ resp[r].status # 503
              /\ Elems(ReturnedRolls(r)) \subseteq Elems(req[r].faces)
              /\ ("error_rate" \notin DOMAIN req[r].spec) => resp[r].status = 200
        /\ \A i \in DOMAIN trial[r] :
              trial[r][i].state = "Succeeded" => trial[r][i].value \in Elems(req[r].faces)

\* the store answered 200 without a specification object and the roll
\* returned the face 6 of the default die
C33_Witness ==
    \E r \in Reqs :
        /\ IncompleteAnswer(r) /\ DOMAIN req[r].spec = {"empty"}
        /\ IsRoll(r) /\ resp[r] = [status |-> 200, roll |-> 6]

\* what a client sees of an answer: the status, and the value when there is one
Outcome(rsp) == IF rsp.status = 200 THEN <<200, rsp.roll>> ELSE <<rsp.status>>

\* C34: on the dice "fair" and "risky", with the store entries fair =
\* faces 1..6, error rate 0 and risky = faces 2..7, error rate 0.1, the
\* hard-coded roller and the specification-driven roller answer the same
\* fault draw and face draw with the same outcome: fair never fails and
\* gives a value in 1..6; risky fails when the draw is below 0.1 and
\* otherwise gives a value in 2..7.
C34_HardCodedAndDrivenAgree ==
    (both.die # "none") =>
        /\ Outcome(both.stage2) = Outcome(both.stage3)
        /\ (both.die = "fair") =>
              (both.stage3.status = 200 /\ both.stage3.roll \in 1..6)
        /\ (both.die = "risky") =>
              IF both.u < 1 THEN both.stage3.status = 500
              ELSE both.stage3.status = 200 /\ both.stage3.roll \in 2..7

\* the risky die gave 7 in both rollers
C34_Witness ==
    /\ both.die = "risky"
    /\ both.stage2 = [status |-> 200, roll |-> 7]
    /\ both.stage3 = [status |-> 200, roll |-> 7]

\* client c called the database-backed store, and a query its handler made
\* failed: the first one, or the one made for the 404 detail
OfDatabase(c) == storecall[c].stage = "stage5"
QueryFailed(c) ==
    \/ ~storecall[c].db[1]
    \/ /\ Asked(c) /\ storecall[c].identifier \notin DOMAIN store
       /\ ~storecall[c].db[2]

\* C35: in the database-backed store a Get of an absent identifier is
\* answered 404 whenever the queries succeed (the not-found error is
\* re-raised, not turned into 500); a failed query answers 500, for list
\* and for get; a 404 is only given for an absent identifier with the
\* database answering.
C35_NotFoundAndDatabaseFailure ==
    \A c \in Reqs : OfDatabase(c) =>
        LET a == storecall[c].answer IN
        /\ (Asked(c) /\ storecall[c].identifier \notin DOMAIN store /\ ~QueryFailed(c))
              => a.status = 404
        /\ QueryFailed(c) <=> a.status = 500
        /\ (a.status = 500) => a.body.detail = <<"Database query failed">>
        /\ (a.status = 404) =>
              (Asked(c) /\ storecall[c].identifier \notin DOMAIN store /\ ~QueryFailed(c))

\* one client got 404 for an absent identifier, another got 500 for the same
\* identifier when the query for the 404 detail failed
C35_Witness ==
    \E c, d \in Reqs :
        /\ OfDatabase(c) /\ Asked(c) /\ storecall[c].answer.status = 404
        /\ OfDatabase(d) /\ storecall[d].identifier = storecall[c].identifier
        /\ storecall[d].db = <<TRUE, FALSE>> /\ storecall[d].answer.status = 500

\* the (log timestamp, application) pair of a row
PairOf(row) == <<row.data.timestamp, row.application>>

CalledStore == scraper.iteration.log_entries # <<>>
\* the rows the last call added to the committed table
NewRows == Len(usage_stats) - Len(scraper.iteration.before)

\* C37: store_usage_stats never raises and is atomic per batch: when the
\* database fails at any point, the failure to open the connection
\* included, the call returns 0 and the committed rows are those of before
\* the call; otherwise it returns the number of rows it added, all
\* committed.
C37_NeverRaisesAtomic ==
    CalledStore =>
        /\ scraper.iteration.outcome = "returned"
        /\ scraper.iteration.inserted = NewRows
        /\ (scraper.iteration.fail # "none") =>
              (scraper.iteration.inserted = 0 /\ usage_stats = scraper.iteration.before)

\* what the function does keep: a call that fails persists nothing, a call
\* that returns gives the number of rows it committed, and the only call
\* that raises is the one whose connection could not be opened
C37_AtomicAndRaisesOnlyOnConnect ==
    CalledStore =>
        /\ scraper.iteration.inserted = NewRows
        /\ (scraper.iteration.fail # "none") => usage_stats = scraper.iteration.before
        /\ (scraper.iteration.outcome = "raised") <=> (scraper.iteration.fail = "connect")

\* the scrape loop is polling, resp. sleeping
Polling == scraper.pc = "polling"
Sleeping == scraper.pc = "sleeping"

\* C38: no iteration stops the scrape loop: whatever the query and the
\* store did, the iteration ends in the sleep and, the sleep over, the next
\* poll starts; and every poll asks for the window from now minus the
\* lookback to now, whatever the earlier polls did.
C38_LoopNeverStops ==
    /\ [](scraper.pc \in {"polling", "sleeping"})
    /\ []((scraper.polls > 0 /\ Sleeping) =>
            scraper.iteration.window =
                <<scraper.now - LOOKBACK_MINUTES * 60, scraper.now>>)
    /\ [](Polling => <>Sleeping)
    /\ []((Sleeping /\ scraper.polls < MaxPolls) => <>Polling)

\* a poll started after an iteration in which store_usage_stats raised
C38_Witness ==
    /\ Polling /\ scraper.polls >= 1
    /\ scraper.iteration.outcome = "raised"
    /\ scraper.now = 2 * POLL_INTERVAL

====
